---- MODULE Spec2Model ----
(***************************************************************************)
(* A model of the swarm orchestration engine of the Antigravity workspace  *)
(* template: the RouterAgent's delegation parser and keyword fallback, the *)
(* BaseAgent's single model call, the MessageBus and the sequential        *)
(* protocol of SwarmOrchestrator.execute; and of its tool layer: the       *)
(* configuration loader, the MCPClientManager and the agent's dispatch of  *)
(* a tool call; and of GeminiAgent.act with the MemoryManager it records   *)
(* to.                                                                     *)
(*                                                                         *)
(* Texts are TLA+ strings; a character is a string of length one.  The     *)
(* language model is the environment: every call either returns one of a   *)
(* small set of reply texts or throws.                                     *)
(***************************************************************************)
EXTENDS Integers, Sequences, FiniteSets, TLC

\* Bounds of the model.
MaxLines == 4
MaxPlanLines == 2
MaxClock == 2
MaxMessages == 3
MaxRuns == 1
MaxServers == 2
MaxCalls == 3
MaxActs == 2
MaxEntries == 3
MaxMemCalls == 4

VARIABLES
    pc,          \* where the current call stands: "idle", "planning", "planned"
                 \* (analyzeAndDelegate returned), "loop", "working", "synth",
                 \* "done" (execute returned), "aborted" (execute rejected)
    userTask,    \* the argument of execute / analyzeAndDelegate
    analysis,    \* router-agent.ts:50, the text returned by the planning call
    parsed,      \* router-agent.ts:53, the delegations parsed from `analysis`
    delegations, \* part_002:114, the plan
    idx,         \* part_002:125, 1-based position of the delegation at hand
    results,     \* part_002:124
    prompt,      \* base-agent.ts:89, fullPrompt of the outstanding model call
    finalResult, \* part_002:172
    thrown,      \* the error execute() rejected with, "" when none
    history,     \* base-agent.ts:18, conversationHistory of every agent
    modelCalls,  \* the model calls issued so far in this run, in order
    messages,    \* part_002:30, MessageBus.messages
    clock,       \* the system clock read by new Date(), in milliseconds
    lastOp,      \* the MessageBus operation called last, with its argument
    ret,         \* what that operation returned
    runs,        \* number of execute() calls started
    logBase,     \* length of the message log when the current run started
    failed,      \* positions of the delegations whose model call threw
    workers,     \* part_002:74, the registry: worker id -> worker instance
    callContext, \* part_002:147, the context of the outstanding worker call
    replies,     \* what the model calls of this run that settled did, in order
    settingsMcpEnabled, \* part_001:85, settings.MCP_ENABLED
    document,    \* the configuration document at configPath, as last loaded
    configs,     \* part_006:254, the configurations initialize() goes through
    cfgIdx,      \* part_006:261, 1-based position of the configuration at hand
    initPc,      \* initialize(): "idle" or "connecting" (awaiting connectServer)
    connections, \* every MCPServerConnection object created, by identity
    servers,     \* part_006:230, the Map name -> connection, in insertion order
    initialized, \* part_006:232
    attempts,    \* the configurations connectServer was called with, in order
    shutPc,      \* shutdown(): "idle" or "closing" (awaiting client.close())
    shutIdx,     \* part_006:549, 1-based position in the Map being iterated
    closeCalls,  \* the connections whose session's close() was called, in order
    availableTools, \* part_004:26, local name -> wrapper (its connection and tool)
    forwarded,   \* the callTool requests sent to provider sessions, in order
    observation, \* part_004:396, the text the last invocation yielded
    raised,      \* whether an invocation raised to its caller
    inits,       \* number of initialize() calls that loaded the document
    skipped,     \* number of initialize() calls that returned at once
    shutdowns,   \* number of shutdown() calls
    invocations, \* number of invocations
    invoked,     \* the last invocation: the name asked for, the session's answer
    initThrew,   \* whether an initialize() call rejected
    shutThrew,   \* whether a shutdown() call rejected
    actPc,       \* act(): "idle", "thinking", "first", "tool" or "followup", the
                 \* await it stands at
    actTask,     \* the argument of act
    memory,      \* check-auth.ts:67, MemoryManager._memory
    summary,     \* check-auth.ts:68, MemoryManager.summary
    memoryFile,  \* what saveMemory wrote last to the memory file
    memBase,     \* length of the memory when the current act started
    memCall,     \* the last call made on the MemoryManager directly: its name, its
                 \* arguments, what it returned, and the number of such calls
    actPrompt,   \* the prompt of the model call issued last
    actSystemPrompt, \* part_004:375, systemPrompt
    firstReply,  \* part_004:389
    toolName,    \* part_004:390, <<>> when null
    actTrace,    \* the calls of this act to think, the model and a tool, in order
    agentReply,  \* what the model call that settled last did
    actReturn,   \* what act returned, <<>> while it has not
    acts,        \* number of act() calls
    secondInit   \* part_006:242-275, an initialize() call that started while
                 \* another was awaiting a connect: its pc, configs and cfgIdx

vars == <<pc, userTask, analysis, parsed, delegations, idx, results, prompt,
          finalResult, thrown, history, modelCalls, messages, clock, lastOp, ret,
          runs, logBase, failed, workers, callContext, replies, settingsMcpEnabled,
          document, configs,
          cfgIdx, initPc, connections, servers, initialized, attempts, shutPc,
          shutIdx, closeCalls, availableTools, forwarded, observation, raised,
          inits, skipped, shutdowns, invocations, invoked, initThrew, shutThrew,
          actPc, actTask, memory, summary, memoryFile, memBase, memCall, actPrompt,
          actSystemPrompt, firstReply, toolName, actTrace, agentReply, actReturn,
          acts, secondInit>>

swarmVars == <<pc, userTask, analysis, parsed, delegations, idx, results, prompt,
               finalResult, thrown, history, modelCalls, runs, logBase, failed,
               workers, callContext, replies>>

busVars == <<messages, clock, lastOp, ret>>

mcpVars == <<settingsMcpEnabled, document, configs, cfgIdx, initPc, connections,
             servers, initialized, attempts, shutPc, shutIdx, closeCalls,
             availableTools, forwarded, observation, raised, inits, skipped,
             shutdowns, invocations, invoked, initThrew, shutThrew, secondInit>>

agentVars == <<actPc, actTask, memory, summary, memoryFile, memBase, memCall, actPrompt,
               actSystemPrompt, firstReply, toolName, actTrace, agentReply, actReturn,
               acts>>

----------------------------------------------------------------------------
(* String primitives of the JavaScript runtime, as the code uses them.     *)

CharAt(s, i) == SubSeq(s, i, i)

\* The characters String.prototype.trim removes (those the inputs can hold).
Whitespace == {" ", "\t", "\n", "\r"}

RECURSIVE TrimStart(_)
TrimStart(s) ==
    IF Len(s) > 0 /\ CharAt(s, 1) \in Whitespace
    THEN TrimStart(SubSeq(s, 2, Len(s)))
    ELSE s

RECURSIVE TrimEnd(_)
TrimEnd(s) ==
    IF Len(s) > 0 /\ CharAt(s, Len(s)) \in Whitespace
    THEN TrimEnd(SubSeq(s, 1, Len(s) - 1))
    ELSE s

Trim(s) == TrimEnd(TrimStart(s))

StartsWith(s, p) == Len(s) >= Len(p) /\ SubSeq(s, 1, Len(p)) = p

Includes(s, w) == \E i \in 1..(Len(s) - Len(w) + 1) : SubSeq(s, i, i + Len(w) - 1) = w

RECURSIVE IndexFrom(_, _, _)
IndexFrom(s, c, i) ==
    IF i > Len(s) THEN 0
    ELSE IF CharAt(s, i) = c THEN i
    ELSE IndexFrom(s, c, i + 1)

\* Position of the first occurrence of the character c in s, 0 when absent.
IndexOf(s, c) == IndexFrom(s, c, 1)

\* s.split(sep) for a one-character separator: every piece, empty ones included.
RECURSIVE Split(_, _)
Split(s, sep) ==
    LET i == IndexOf(s, sep)
    IN  IF i = 0 THEN <<s>>
        ELSE <<SubSeq(s, 1, i - 1)>> \o Split(SubSeq(s, i + 1, Len(s)), sep)

\* s.split(sep, limit): the first `limit` pieces of s.split(sep); the rest of
\* the text is dropped, not kept in the last piece.
SplitLimit(s, sep, limit) ==
    LET pieces == Split(s, sep)
    IN  SubSeq(pieces, 1, IF Len(pieces) < limit THEN Len(pieces) ELSE limit)

UpperCase == "ABCDEFGHIJKLMNOPQRSTUVWXYZ"
LowerCase == "abcdefghijklmnopqrstuvwxyz"

LowerChar(c) ==
    IF \E i \in 1..Len(UpperCase) : CharAt(UpperCase, i) = c
    THEN CharAt(LowerCase, CHOOSE i \in 1..Len(UpperCase) : CharAt(UpperCase, i) = c)
    ELSE c

RECURSIVE ToLowerCase(_)
ToLowerCase(s) ==
    IF Len(s) = 0 THEN ""
    ELSE LowerChar(CharAt(s, 1)) \o ToLowerCase(SubSeq(s, 2, Len(s)))

UpperChar(c) ==
    IF \E i \in 1..Len(LowerCase) : CharAt(LowerCase, i) = c
    THEN CharAt(UpperCase, CHOOSE i \in 1..Len(LowerCase) : CharAt(LowerCase, i) = c)
    ELSE c

RECURSIVE ToUpperCase(_)
ToUpperCase(s) ==
    IF Len(s) = 0 THEN ""
    ELSE UpperChar(CharAt(s, 1)) \o ToUpperCase(SubSeq(s, 2, Len(s)))

RECURSIVE Join(_, _)
Join(pieces, sep) ==
    IF Len(pieces) = 0 THEN ""
    ELSE IF Len(pieces) = 1 THEN pieces[1]
    ELSE pieces[1] \o sep \o Join(Tail(pieces), sep)

----------------------------------------------------------------------------
(* RouterAgent: the delegation parser and the keyword fallback.            *)

\* An optional field of Partial<Delegation>: <<>> when undefined, <<text>> when set.
\* A field is truthy when it is set to a non-empty text.
Truthy(field) == Len(field) = 1 /\ field[1] # ""

NoDelegation == [agent |-> <<>>, task |-> <<>>]

AsDelegation(cur) == [agent |-> cur.agent[1], task |-> cur.task[1]]

\* The text after the first ':' of a line, up to the second ':' (split(':', 2)[1]).
FieldOf(line) == Trim(SplitLimit(line, ":", 2)[2])

\* Parsing without line.trim(): a plausible slip.
ParseLineUntrimmed(st, raw) ==
    LET line == raw
    IN  IF StartsWith(line, "- agent:")
        THEN [delegations |->
                  IF Truthy(st.cur.agent) /\ Truthy(st.cur.task)
                  THEN Append(st.delegations, AsDelegation(st.cur))
                  ELSE st.delegations,
              cur |-> [agent |-> <<FieldOf(line)>>, task |-> <<>>]]
        ELSE IF StartsWith(line, "- task:") /\ Truthy(st.cur.agent)
        THEN [st EXCEPT !.cur.task = <<FieldOf(line)>>]
        ELSE st

\* Parsing that keeps a pending delegation when a new '- agent:' line arrives
\* (emits it with whatever it has): a plausible slip.
ParseLineEager(st, raw) ==
    LET line == Trim(raw)
    IN  IF StartsWith(line, "- agent:")
        THEN [delegations |->
                  IF Truthy(st.cur.agent)
                  THEN Append(st.delegations,
                              [agent |-> st.cur.agent[1],
                               task |-> IF Truthy(st.cur.task) THEN st.cur.task[1] ELSE ""])
                  ELSE st.delegations,
              cur |-> [agent |-> <<FieldOf(line)>>, task |-> <<>>]]
        ELSE IF StartsWith(line, "- task:") /\ Truthy(st.cur.agent)
        THEN [st EXCEPT !.cur.task = <<FieldOf(line)>>]
        ELSE st

\* One pass of the loop body over a line (router-agent.ts:57-67).
ParseLine(st, raw) ==
    LET line == Trim(raw)
    IN  IF StartsWith(line, "- agent:")
        THEN [delegations |->
                  IF Truthy(st.cur.agent) /\ Truthy(st.cur.task)
                  THEN Append(st.delegations, AsDelegation(st.cur))
                  ELSE st.delegations,
              cur |-> [agent |-> <<FieldOf(line)>>, task |-> <<>>]]
        ELSE IF StartsWith(line, "- task:") /\ Truthy(st.cur.agent)
        THEN [st EXCEPT !.cur.task = <<FieldOf(line)>>]
        ELSE st

RECURSIVE ParseLoop(_, _)
ParseLoop(lines, st) ==
    IF Len(lines) = 0 THEN st
    ELSE ParseLoop(Tail(lines), ParseLine(st, Head(lines)))

\* router-agent.ts:53-71, from the lines of the response on: the loop and the
\* flush of the last pending delegation.
ParseLines(lines) ==
    LET st == ParseLoop(lines, [delegations |-> <<>>, cur |-> NoDelegation])
    IN  IF Truthy(st.cur.agent) /\ Truthy(st.cur.task)
        THEN Append(st.delegations, AsDelegation(st.cur))
        ELSE st.delegations

\* router-agent.ts:53-71: the delegations parsed from the planning response.
ParseDelegations(text) == ParseLines(Split(text, "\n"))

CodeKeywords == {"code", "implement", "build", "create", "write", "function"}
ReviewKeywords == {"review", "check", "security", "quality", "analyze"}
ResearchKeywords == {"research", "search", "find", "information", "learn"}

\* words.some((word) => text.includes(word))
SomeIncluded(words, text) == \E word \in words : Includes(text, word)

Delegate(agent, task, matched) ==
    IF matched THEN <<[agent |-> agent, task |-> task]>> ELSE <<>>

\* The fallback without toLowerCase(): a plausible slip.
SimpleDelegateCaseSensitive(task) ==
    LET taskLower == task
        found == Delegate("coder", task, SomeIncluded(CodeKeywords, taskLower))
                 \o Delegate("reviewer", task, SomeIncluded(ReviewKeywords, taskLower))
                 \o Delegate("researcher", task, SomeIncluded(ResearchKeywords, taskLower))
    IN  IF Len(found) = 0 THEN <<[agent |-> "coder", task |-> task]>> ELSE found

\* The fallback as an else-if chain, which stops at the first keyword set that
\* matches: a plausible slip.
SimpleDelegateFirstMatch(task) ==
    LET taskLower == ToLowerCase(task)
    IN  IF SomeIncluded(CodeKeywords, taskLower)
        THEN <<[agent |-> "coder", task |-> task]>>
        ELSE IF SomeIncluded(ReviewKeywords, taskLower)
        THEN <<[agent |-> "reviewer", task |-> task]>>
        ELSE IF SomeIncluded(ResearchKeywords, taskLower)
        THEN <<[agent |-> "researcher", task |-> task]>>
        ELSE <<[agent |-> "coder", task |-> task]>>

\* router-agent.ts:84-121.
SimpleDelegate(task) ==
    LET taskLower == ToLowerCase(task)
        found == Delegate("coder", task, SomeIncluded(CodeKeywords, taskLower))
                 \o Delegate("reviewer", task, SomeIncluded(ReviewKeywords, taskLower))
                 \o Delegate("researcher", task, SomeIncluded(ResearchKeywords, taskLower))
    IN  IF Len(found) = 0 THEN <<[agent |-> "coder", task |-> task]>> ELSE found

\* analyzeAndDelegate without the fallback: a plausible slip.
PlanWithoutFallback(task, text) == ParseDelegations(text)

\* router-agent.ts:49-79, after the planning call has returned `text`.
PlanFrom(task, text) ==
    LET fromReply == ParseDelegations(text)
    IN  IF Len(fromReply) = 0 THEN SimpleDelegate(task) ELSE fromReply

----------------------------------------------------------------------------
(* BaseAgent: one model call per execute.                                  *)

Workers == {"coder", "reviewer", "researcher"}

\* part_002:91-95: the registry the constructor builds, one new instance of
\* its class per id.
NewWorkers ==
    [w \in Workers |->
        [class |-> CASE w = "coder" -> "CoderAgent"
                     [] w = "reviewer" -> "ReviewerAgent"
                     [] w = "researcher" -> "ResearcherAgent",
         role |-> w]]
Agents == {"router"} \cup Workers

\* The fixed role instruction of each agent (its opening sentence; the rest of
\* the literal is fixed text that no operation reads).
SystemPrompt(role) ==
    CASE role = "router" ->
           "You are the Router Agent, the coordinator of a multi-agent system."
      [] role = "coder" ->
           "You are the Coder Agent, a specialist in software engineering."
      [] role = "reviewer" ->
           "You are the Reviewer Agent, a specialist in code quality and security."
      [] role = "researcher" ->
           "You are the Researcher Agent, a specialist in information gathering."

\* `value || fallback` on texts.
OrElse(value, fallback) == IF value = "" THEN fallback ELSE value

RECURSIVE ContextLines(_)
ContextLines(context) ==
    IF Len(context) = 0 THEN ""
    ELSE "[" \o OrElse(Head(context).from, "unknown") \o "]: "
         \o Head(context).content \o "\n" \o ContextLines(Tail(context))

\* base-agent.ts:76: the optional context argument, null by default or a list
\* of messages.
NoContext == [given |-> FALSE, list |-> <<>>]
Context(list) == [given |-> TRUE, list |-> list]

\* A prompt that replays the agent's stored conversation: a plausible slip.
FullPromptWithHistory(role, task, context) ==
    SystemPrompt(role) \o "\n\nTask: " \o task
    \o (IF context.given /\ Len(context.list) > 0
        THEN "\n\nContext from other agents:\n" \o ContextLines(context.list)
        ELSE "")
    \o (IF Len(history[role]) > 0 THEN "\n\nEarlier: " \o history[role][1].content
        ELSE "")

\* base-agent.ts:78-90: the code tests `context && context.length > 0`.
FullPrompt(role, task, context) ==
    SystemPrompt(role) \o "\n\nTask: " \o task
    \o (IF context.given /\ Len(context.list) > 0
        THEN "\n\nContext from other agents:\n" \o ContextLines(context.list)
        ELSE "")

\* What the model call did: returned a text, or threw an error.
Returned(text) == [ok |-> TRUE, text |-> text]
Threw(error) == [ok |-> FALSE, text |-> error]

\* An agent that hands the model's text on as it came: a plausible slip.
ExecuteResultUntrimmed(role, outcome) ==
    IF outcome.ok
    THEN outcome.text
    ELSE "[" \o role \o "] Error executing task: " \o outcome.text

\* base-agent.ts:93-118: the text execute() resolves with.
ExecuteResult(role, outcome) ==
    IF outcome.ok
    THEN Trim(outcome.text)
    ELSE "[" \o role \o "] Error executing task: " \o outcome.text

\* base-agent.ts:106-113: a successful call is stored, a failed one is not.
Remember(h, role, task, outcome) ==
    IF outcome.ok
    THEN [h EXCEPT ![role] = h[role] \o <<[role |-> "user", content |-> task],
                                          [role |-> "assistant",
                                           content |-> Trim(outcome.text)]>>]
    ELSE h

----------------------------------------------------------------------------
(* MessageBus.                                                             *)

\* A bus that puts a new message first instead of last: a plausible slip.
SendFirst(log, fromAgent, toAgent, messageType, content, now) ==
    <<[from |-> fromAgent, to |-> toAgent, type |-> messageType,
       content |-> content, timestamp |-> now]>> \o log

\* A bus that keeps the two latest messages only: a plausible slip.
SendKeepingLatest(log, fromAgent, toAgent, messageType, content, now) ==
    LET all == Append(log, [from |-> fromAgent, to |-> toAgent, type |-> messageType,
                            content |-> content, timestamp |-> now])
    IN  IF Len(all) > 2 THEN SubSeq(all, Len(all) - 1, Len(all)) ELSE all

\* part_002:35-44.  The timestamp is the ISO text of the clock reading; the
\* model keeps the reading itself (the ISO form is fixed-width, so the order of
\* the texts is the order of the readings).
Send(log, fromAgent, toAgent, messageType, content, now) ==
    Append(log, [from |-> fromAgent, to |-> toAgent, type |-> messageType,
                 content |-> content, timestamp |-> now])

\* A filter on the recipient alone: a plausible slip.
GetContextForRecipient(log, agentName) ==
    SelectSeq(log, LAMBDA msg : msg.to = agentName)

\* part_002:50-52.
GetContextFor(log, agentName) ==
    SelectSeq(log, LAMBDA msg : msg.to = agentName \/ msg.from = agentName)

\* part_002:57-59.
GetAllMessages(log) == log

----------------------------------------------------------------------------
(* SwarmOrchestrator.                                                      *)

\* Names every object inherits from Object.prototype.  The registry is a plain
\* object literal, so this.workers[name] finds these through the prototype
\* chain: each is a function or an object, hence truthy, and none has execute.
ObjectPrototypeKeys ==
    {"constructor", "toString", "toLocaleString", "valueOf", "hasOwnProperty",
     "isPrototypeOf", "propertyIsEnumerable", "__proto__", "__defineGetter__",
     "__defineSetter__", "__lookupGetter__", "__lookupSetter__"}

\* part_002:139: what this.workers[agentName] evaluates to.
Lookup(agentName) ==
    IF agentName \in DOMAIN workers THEN "worker"
    ELSE IF agentName \in ObjectPrototypeKeys THEN "inherited"
    ELSE "undefined"

RECURSIVE Decimal(_)
Decimal(n) ==
    IF n < 10 THEN CharAt("0123456789", n + 1)
    ELSE Decimal(n \div 10) \o CharAt("0123456789", (n % 10) + 1)

RECURSIVE SynthesisItems(_, _, _)
SynthesisItems(plan, res, i) ==
    IF i > Len(plan) THEN ""
    ELSE Decimal(i) \o ". [" \o plan[i].agent \o "] " \o plan[i].task \o "\n"
         \o "   Result: "
         \o OrElse(IF i <= Len(res) THEN res[i] ELSE "", "No result") \o "\n\n"
         \o SynthesisItems(plan, res, i + 1)

\* router-agent.ts:127-134.
SynthesisPrompt(plan, res) ==
    "Synthesize a final response based on the following agent outputs:\n\n"
    \o SynthesisItems(plan, res, 1)
    \o "Provide a concise final report summarizing what was accomplished."

----------------------------------------------------------------------------
(* Configuration loading (config.ts) and the MCPClientManager.             *)

\* part_001:59-62.  An environment variable is <<>> when unset, <<text>> when set.
ParseEnvBoolean(value, defaultValue) ==
    IF value = <<>> THEN defaultValue
    ELSE ToLowerCase(value[1]) = "true" \/ value[1] = "1"

\* part_001:88: process.env.MCP_TOOL_PREFIX || 'mcp_', with the variable unset.
ToolPrefix == "mcp_"

\* part_001:20.
Transports == {"stdio", "http", "streamable-http", "sse"}

\* An entry of the document's `servers` array as written: every field is <<>>
\* when absent and <<value>> when given.
RawEntry(name, transport, command, url, enabled) ==
    [name |-> name, transport |-> transport, command |-> command, url |-> url,
     enabled |-> enabled]

\* part_001:18-26: whether MCPServerConfigSchema.parse accepts the entry.
SchemaAccepts(s) ==
    /\ Len(s.name) = 1
    /\ s.transport = <<>> \/ s.transport[1] \in Transports

\* part_001:18-26: the parsed configuration, defaults filled in.
SchemaParse(s) ==
    [name |-> s.name[1],
     transport |-> IF s.transport = <<>> THEN "stdio" ELSE s.transport[1],
     command |-> s.command,
     url |-> s.url,
     enabled |-> IF s.enabled = <<>> THEN TRUE ELSE s.enabled[1]]

\* part_001:113: s.enabled !== false.
NotDisabled(s) == s.enabled # <<FALSE>>

\* A loader that leaves disabled entries in: a plausible slip.
LoadWithoutEnabledFilter(doc) ==
    IF doc.kind # "object" THEN <<>>
    ELSE IF \E k \in 1..Len(doc.servers) : ~SchemaAccepts(doc.servers[k]) THEN <<>>
    ELSE [k \in 1..Len(doc.servers) |-> SchemaParse(doc.servers[k])]

\* A loader that skips the entries the schema rejects: a plausible slip.
LoadSkippingRejected(doc) ==
    IF doc.kind # "object" THEN <<>>
    ELSE LET kept == SelectSeq(doc.servers, LAMBDA e : NotDisabled(e) /\ SchemaAccepts(e))
         IN  [k \in 1..Len(kept) |-> SchemaParse(kept[k])]

\* part_001:97-123.  A document is missing, is no JSON ("invalid"), or is a JSON
\* object with a servers array.
LoadMCPServerConfigs(doc) ==
    IF doc.kind # "object" THEN <<>>
    ELSE LET kept == SelectSeq(doc.servers, NotDisabled)
         IN  IF \E k \in 1..Len(kept) : ~SchemaAccepts(kept[k]) THEN <<>>
             ELSE [k \in 1..Len(kept) |-> SchemaParse(kept[k])]

\* part_006:217-222.
GetPrefixedName(tool, prefix) ==
    IF prefix # "" THEN prefix \o tool.serverName \o "_" \o tool.originalName
    ELSE tool.serverName \o "_" \o tool.originalName

\* part_006:281-290.  session is TRUE when a client object is held.
NewConnection(config) ==
    [config |-> config, session |-> FALSE, tools |-> <<>>, connected |-> FALSE,
     error |-> <<>>]

\* What the transport and the provider did: the session was established and
\* listTools answered, the session was established and listTools threw, or
\* establishing the session threw.
Listed(names) == [kind |-> "listed", tools |-> names, message |-> ""]
ListFailed == [kind |-> "listFailed", tools |-> <<>>, message |-> ""]
ConnectFailed(message) == [kind |-> "failed", tools |-> <<>>, message |-> message]

\* part_006:419-442.
DiscoverTools(connection, outcome) ==
    [connection EXCEPT !.tools =
        [k \in 1..Len(outcome.tools) |->
            [name |-> outcome.tools[k], serverName |-> connection.config.name,
             originalName |-> outcome.tools[k]]]]

\* Establish, except that a failed connect leaves no error on the record.
EstablishWithoutError(connection, outcome) ==
    IF outcome.kind = "failed"
    THEN [connection EXCEPT !.connected = FALSE]
    ELSE DiscoverTools([connection EXCEPT !.session = TRUE, !.connected = TRUE], outcome)

\* part_006:342-361 and 385-400: client.connect settles.
Establish(connection, outcome) ==
    IF outcome.kind = "failed"
    THEN [connection EXCEPT !.error = <<outcome.message>>, !.connected = FALSE]
    ELSE DiscoverTools([connection EXCEPT !.session = TRUE, !.connected = TRUE], outcome)

ConnectionFailed(connection, message) ==
    [connection EXCEPT !.error = <<message>>, !.connected = FALSE]

\* connectServer that lets the error of a failed connection escape: a
\* plausible slip.  The record is then never stored.
ConnectServerUncaught(config, outcome) ==
    LET connection == NewConnection(config)
        established == Establish(connection, outcome)
    IN  IF config.transport = "stdio" /\ ~Truthy(config.command)
        THEN [record |-> connection, threw |-> TRUE]
        ELSE IF config.transport # "stdio" /\ ~Truthy(config.url)
        THEN [record |-> connection, threw |-> TRUE]
        ELSE [record |-> established, threw |-> ~established.connected]

\* part_006:280-322: the connection record connectServer stores, and whether
\* connectServer threw.
ConnectServer(config, outcome) ==
    LET connection == NewConnection(config)
    IN  [threw |-> FALSE,
         record |->
            IF config.transport = "stdio"
            THEN IF ~Truthy(config.command)
                 THEN ConnectionFailed(connection, "stdio transport requires 'command' field")
                 ELSE Establish(connection, outcome)
            ELSE IF config.transport \in {"http", "streamable-http", "sse"}
            THEN IF ~Truthy(config.url)
                 THEN ConnectionFailed(connection, "http transport requires 'url' field")
                 ELSE Establish(connection, outcome)
            ELSE ConnectionFailed(connection, "Unsupported transport: " \o config.transport)]

\* The Map `servers`: a sequence of entries [name, conn] in insertion order,
\* conn being the identity of a connection object.
MapHas(map, name) == \E k \in 1..Len(map) : map[k].name = name

MapGet(map, name) == map[CHOOSE k \in 1..Len(map) : map[k].name = name].conn

\* Map.prototype.set: an existing key keeps its place and takes the new value.
MapSet(map, name, conn) ==
    IF MapHas(map, name)
    THEN [k \in 1..Len(map) |-> IF map[k].name = name THEN [name |-> name, conn |-> conn]
                                ELSE map[k]]
    ELSE Append(map, [name |-> name, conn |-> conn])

\* part_006:447-455: the tools of the connected connections, in Map order.
RECURSIVE GetAllTools(_, _, _)
GetAllTools(map, heap, k) ==
    IF k > Len(map) THEN <<>>
    ELSE (IF heap[map[k].conn].connected THEN heap[map[k].conn].tools ELSE <<>>)
         \o GetAllTools(map, heap, k + 1)

\* part_006:463-472: the (name, wrapper) pairs in the order they are set.
RECURSIVE WrappersOfTools(_, _, _, _)
WrappersOfTools(conn, tools, k, prefix) ==
    IF k > Len(tools) THEN <<>>
    ELSE <<[name |-> GetPrefixedName(tools[k], prefix), connection |-> conn,
            tool |-> tools[k]]>>
         \o WrappersOfTools(conn, tools, k + 1, prefix)

RECURSIVE WrappersFrom(_, _, _, _)
WrappersFrom(map, heap, k, prefix) ==
    IF k > Len(map) THEN <<>>
    ELSE (IF heap[map[k].conn].connected
          THEN WrappersOfTools(map[k].conn, heap[map[k].conn].tools, 1, prefix)
          ELSE <<>>)
         \o WrappersFrom(map, heap, k + 1, prefix)

\* A Map built by setting the pairs in order: the last pair set for a name is
\* the one the name maps to.
MapOfPairs(pairs) ==
    [n \in {pairs[k].name : k \in 1..Len(pairs)} |->
        LET last == CHOOSE k \in 1..Len(pairs) :
                        /\ pairs[k].name = n
                        /\ \A j \in 1..Len(pairs) : pairs[j].name = n => j <= k
        IN  [connection |-> pairs[last].connection, tool |-> pairs[last].tool]]

\* part_006:460-475.
GetAllToolsAsCallables(map, heap, prefix) == MapOfPairs(WrappersFrom(map, heap, 1, prefix))

\* A wrapper without its try/catch: a plausible slip.
ToolWrapperUncaught(connection, tool, outcome) ==
    IF ~connection.connected \/ ~connection.session
    THEN [forwards |-> FALSE,
          result |-> Returned("Error: MCP server '" \o connection.config.name
                              \o "' is not connected")]
    ELSE [forwards |-> TRUE, result |-> outcome]

\* part_006:481-511: what the wrapper does when called: whether it sends
\* callTool to the session, and what it resolves with.  The session's answer
\* is a text, or the session throws.
ToolWrapper(connection, tool, outcome) ==
    IF ~connection.connected \/ ~connection.session
    THEN [forwards |-> FALSE,
          result |-> Returned("Error: MCP server '" \o connection.config.name
                              \o "' is not connected")]
    ELSE [forwards |-> TRUE,
          result |-> IF outcome.ok THEN outcome
                     ELSE Returned("Error calling MCP tool '" \o tool.originalName
                                   \o "': " \o outcome.text)]

\* part_006:549-562: the first entry of the Map at or after position `from`
\* whose connection holds a session, 0 when there is none.
RECURSIVE NextWithSession(_, _, _)
NextWithSession(map, heap, from) ==
    IF from > Len(map) THEN 0
    ELSE IF heap[map[from].conn].session THEN from
    ELSE NextWithSession(map, heap, from + 1)

----------------------------------------------------------------------------
(* MemoryManager (check-auth.ts:65-217) and GeminiAgent.act (part_004).     *)

\* check-auth.ts:121-128, addEntry: an entry of the history (its metadata is always {}).
Entry(role, content) == [role |-> role, content |-> content]

\* check-auth.ts:110-116, saveMemory: what is written to the memory file.
Payload(memorySummary, entries) == [summary |-> memorySummary, history |-> entries]

RECURSIVE SummaryLines(_)
SummaryLines(oldMessages) ==
    IF Len(oldMessages) = 0 THEN <<>>
    ELSE <<OrElse(Head(oldMessages).role, "unknown") \o ": "
           \o Head(oldMessages).content>>
         \o SummaryLines(Tail(oldMessages))

\* check-auth.ts:141-152, defaultSummarizer.
DefaultSummarizer(oldMessages, previousSummary) ==
    Trim(Join((IF previousSummary # "" THEN <<Trim(previousSummary)>> ELSE <<>>)
              \o SummaryLines(oldMessages), "\n"))

\* part_004:384 and 413: the maxMessages act asks the context window for.
WindowSize == 10

\* check-auth.ts:157-207, getContextWindow with the default summarizer: the window it
\* returns and the summary it leaves, or the error it throws.
GetContextWindow(entries, memorySummary, systemPrompt, maxMessages) ==
    IF systemPrompt = ""
    THEN [threw |-> <<"Error: systemPrompt is required to build the context window.">>,
          window |-> <<>>, summary |-> memorySummary]
    ELSE IF maxMessages < 1
    THEN [threw |-> <<"Error: maxMessages must be at least 1.">>,
          window |-> <<>>, summary |-> memorySummary]
    ELSE IF Len(entries) <= maxMessages
    THEN [threw |-> <<>>,
          window |-> <<Entry("system", systemPrompt)>> \o entries,
          summary |-> memorySummary]
    ELSE LET old == SubSeq(entries, 1, Len(entries) - maxMessages)
             recent == SubSeq(entries, Len(entries) - maxMessages + 1, Len(entries))
             newSummary == Trim(DefaultSummarizer(old, memorySummary))
         IN  [threw |-> <<>>,
              window |-> <<Entry("system", systemPrompt),
                           Entry("system", "Previous Summary: " \o newSummary)>>
                         \o recent,
              summary |-> newSummary]

\* part_004:248-252, formatContextMessages.
FormatContextMessages(contextMessages) ==
    Join([k \in 1..Len(contextMessages) |->
              ToUpperCase(contextMessages[k].role) \o ": "
              \o contextMessages[k].content], "\n")

\* A tool of the agent that is a local function, not a wrapper of a provider's
\* tool: its connection is 0.
LocalTool(name) ==
    [connection |-> 0,
     tool |-> [name |-> name, serverName |-> "", originalName |-> name]]

\* part_005:14-16: the description property of webSearch; part_006:514-516: the one
\* of a wrapper, the provider having given none (part_006:432).
DescriptionOf(fn) ==
    IF fn.connection = 0
    THEN "Performs a web search for the given query. Args: query (string)"
    ELSE "[MCP:" \o fn.tool.serverName \o "] No description provided"

\* part_004:234-242, getToolDescriptions.  The Map lists its entries in
\* insertion order; the function that stands for it here keeps no order, and
\* the lines of two or more tools are put in one fixed order.
RECURSIVE DescriptionLines(_, _)
DescriptionLines(tools, names) ==
    IF names = {} THEN <<>>
    ELSE LET name == CHOOSE n \in names : TRUE
         IN  <<"- " \o name \o ": " \o Trim(DescriptionOf(tools[name]))>>
             \o DescriptionLines(tools, names \ {name})

GetToolDescriptions(tools) == Join(DescriptionLines(tools, DOMAIN tools), "\n")

\* part_004:375-381: the system prompt of act.
AgentSystemPrompt(toolList) ==
    "You are an expert AI agent following the Think-Act-Reflect loop.\n"
    \o "You have access to the following tools:\n" \o toolList \o "\n\n"
    \o "If you need a tool, respond ONLY with a JSON object using the schema:\n"
    \o "{\"action\": \"<tool_name>\", \"args\": {\"param\": \"value\"}}\n"
    \o "If no tool is needed, reply directly with the final answer."

InitialPrompt(formattedContext, task) ==
    formattedContext \o "\n\nCurrent Task: " \o task

FollowUpPrompt(formattedContext, name, seen) ==
    formattedContext \o "\n\nTool '" \o name \o "' observation: " \o seen
    \o "\nUse the observation above to craft the final answer for the user."
    \o " Do not request additional tool calls."

\* part_004:257-271, callGemini: the text of the reply, '' when the call
\* throws.
CallGemini(outcome) == IF outcome.ok THEN outcome.text ELSE ""

\* JSON.parse, on the texts the replies are made of: objects whose values are
\* strings without escapes or objects again, with white space between tokens.
\* Any other text is a SyntaxError (ok is FALSE).
Quote == "\""

RECURSIVE SkipBlanks(_, _)
SkipBlanks(s, i) ==
    IF i <= Len(s) /\ CharAt(s, i) \in Whitespace THEN SkipBlanks(s, i + 1) ELSE i

NoJson == [ok |-> FALSE, kind |-> "", text |-> "", members |-> <<>>, next |-> 0]

JsonString(s, i) ==
    IF i <= Len(s) /\ CharAt(s, i) = Quote /\ IndexFrom(s, Quote, i + 1) > 0
    THEN [ok |-> TRUE, kind |-> "string",
          text |-> SubSeq(s, i + 1, IndexFrom(s, Quote, i + 1) - 1),
          members |-> <<>>, next |-> IndexFrom(s, Quote, i + 1) + 1]
    ELSE NoJson

RECURSIVE JsonValue(_, _)
RECURSIVE JsonMembers(_, _, _)
JsonValue(s, i) ==
    IF i > Len(s) THEN NoJson
    ELSE IF CharAt(s, i) = Quote THEN JsonString(s, i)
    ELSE IF CharAt(s, i) = "{"
    THEN LET k == SkipBlanks(s, i + 1)
         IN  IF k <= Len(s) /\ CharAt(s, k) = "}"
             THEN [ok |-> TRUE, kind |-> "object", text |-> "", members |-> <<>>,
                   next |-> k + 1]
             ELSE JsonMembers(s, k, <<>>)
    ELSE NoJson

JsonMembers(s, i, members) ==
    LET key == JsonString(s, i)
        colon == SkipBlanks(s, key.next)
        val == JsonValue(s, SkipBlanks(s, colon + 1))
        after == SkipBlanks(s, val.next)
        added == Append(members, [key |-> key.text,
                                  value |-> [kind |-> val.kind, text |-> val.text,
                                             members |-> val.members]])
    IN  IF ~key.ok \/ colon > Len(s) THEN NoJson
        ELSE IF CharAt(s, colon) # ":" THEN NoJson
        ELSE IF ~val.ok \/ after > Len(s) THEN NoJson
        ELSE IF CharAt(s, after) = "}"
        THEN [ok |-> TRUE, kind |-> "object", text |-> "", members |-> added,
              next |-> after + 1]
        ELSE IF CharAt(s, after) = ","
        THEN JsonMembers(s, SkipBlanks(s, after + 1), added)
        ELSE NoJson

JsonParse(text) ==
    LET val == JsonValue(text, SkipBlanks(text, 1))
    IN  IF val.ok /\ SkipBlanks(text, val.next) > Len(text) THEN val ELSE NoJson

\* payload[key]: <<>> when undefined, else the value; a repeated key takes its
\* last value.
Property(payload, key) ==
    LET at == {k \in 1..Len(payload.members) : payload.members[k].key = key}
    IN  IF at = {} THEN <<>>
        ELSE <<payload.members[CHOOSE k \in at : \A j \in at : j <= k].value>>

\* JavaScript truthiness of an optional JSON value.
TruthyValue(field) ==
    Len(field) = 1 /\ (field[1].kind = "object" \/ field[1].text # "")

\* a || b on optional JSON values.
Either(a, b) == IF TruthyValue(a) THEN a ELSE b

\* String(value).
StringOf(value) == IF value.kind = "object" THEN "[object Object]" ELSE value.text

NoToolCall == [name |-> <<>>, args |-> <<>>]

\* The members of the object `args` is, {} when it is no object.
ArgsOf(args) ==
    IF TruthyValue(args) /\ args[1].kind = "object" THEN args[1].members ELSE <<>>

\* The "Action:" pattern that looks for "action:" anywhere in a line.
RECURSIVE ActionLineAnywhere(_, _)
ActionLineAnywhere(lines, k) ==
    IF k > Len(lines) THEN NoToolCall
    ELSE IF Includes(ToLowerCase(lines[k]), "action:")
            /\ Trim(SplitLimit(lines[k], ":", 2)[2]) # ""
    THEN [name |-> <<Trim(SplitLimit(lines[k], ":", 2)[2])>>, args |-> <<>>]
    ELSE ActionLineAnywhere(lines, k + 1)

\* part_004:294-303, the "Action: tool_name" pattern of extractToolCall over
\* the lines from position k on.
RECURSIVE ActionLine(_, _)
ActionLine(lines, k) ==
    IF k > Len(lines) THEN NoToolCall
    ELSE IF StartsWith(ToLowerCase(lines[k]), "action:")
            /\ Trim(SplitLimit(lines[k], ":", 2)[2]) # ""
    THEN [name |-> <<Trim(SplitLimit(lines[k], ":", 2)[2])>>, args |-> <<>>]
    ELSE ActionLine(lines, k + 1)

\* part_004:277-306, extractToolCall: the tool's name, <<>> when none is asked
\* for, and its arguments.
ExtractToolCall(responseText) ==
    LET cleaned == Trim(responseText)
        payload == JsonParse(cleaned)
        action == Either(Property(payload, "action"), Property(payload, "tool"))
        args == Either(Property(payload, "args"), Property(payload, "input"))
    IN  IF payload.ok /\ payload.kind = "object" /\ TruthyValue(action)
        THEN [name |-> <<StringOf(action[1])>>, args |-> ArgsOf(args)]
        ELSE ActionLine(Split(cleaned, "\n"), 1)

----------------------------------------------------------------------------
(* The environment: task texts and what the model may answer.              *)

ReviewTask == "review this function for security issues"

\* Tasks given to the router alone.
RouterTasks ==
    {ReviewTask, "Write CODE", "hello", "Find and CHECK", "build, review, research"}

\* Lines a planning response is made of.
LineTexts ==
    {"- agent: coder", "- agent: x", "- agent:", "- task: write X", "- task: a:b",
     "- task:", "DELEGATION:"}

\* Every text of at most n such lines.
Replies(n) == {Join(ls, "\n") : ls \in UNION {[1..k -> LineTexts] : k \in 0..n}}

ModelError == "Error: boom"

RouterOutcomes ==
    {Returned(r) : r \in Replies(MaxPlanLines)} \cup {Threw(ModelError)}

\* The parser alone: one task, longer responses.
ParserTasks == {"hello"}

ParserOutcomes == {Returned(r) : r \in Replies(MaxLines)} \cup {Threw(ModelError)}

\* Tasks given to the orchestrator.
SwarmTasks == {ReviewTask, "hello"}

DummyReply == "[router] Task completed"

PlanOutcomes ==
    {Returned(DummyReply),
     Returned("- agent: coder\n- task: write X\n- agent: reviewer\n- task: review X"),
     Returned("- agent: x\n- task: t"),
     Returned("- agent: coder\n- task: t\n- agent: x\n- task: t\n- agent: coder\n- task: t"),
     Returned("- agent: constructor\n- task: t"),
     Returned("- agent: x\n- task: t\n- agent: coder\n- task: u\n- agent: toString\n- task: v"),
     Threw(ModelError)}

WorkerOutcomes == {Returned(" done\n"), Threw(ModelError)}

SynthOutcomes == {Returned(DummyReply), Threw(ModelError)}

BusAgents == {"router", "coder"}
BusTypes == {"task", "result"}
BusContents == {"a"}

\* Values of the environment variable MCP_ENABLED.
EnvValues == {<<>>, <<"TRUE">>, <<"1">>}

\* Entries a configuration document is made of, in the order they are written
\* in: a provider without its command, two that can be connected, one without
\* its url, a disabled one, a disabled one with a transport the schema
\* rejects, and an enabled one with such a transport.
Entries ==
    <<RawEntry(<<"b">>, <<>>, <<>>, <<>>, <<>>),
      RawEntry(<<"a">>, <<"stdio">>, <<"run">>, <<>>, <<>>),
      RawEntry(<<"a_b">>, <<"http">>, <<>>, <<"http://h">>, <<TRUE>>),
      RawEntry(<<"c">>, <<"sse">>, <<>>, <<>>, <<>>),
      RawEntry(<<"d">>, <<"stdio">>, <<"run">>, <<>>, <<FALSE>>),
      RawEntry(<<"f">>, <<"ftp">>, <<>>, <<"ftp://h">>, <<FALSE>>),
      RawEntry(<<"e">>, <<"ftp">>, <<>>, <<"ftp://h">>, <<>>)>>

\* The entries at the positions `chosen`, in the order of Entries.
RECURSIVE Chosen(_, _)
Chosen(chosen, k) ==
    IF k > Len(Entries) THEN <<>>
    ELSE (IF k \in chosen THEN <<Entries[k]>> ELSE <<>>) \o Chosen(chosen, k + 1)

\* The documents: a missing file, a file that is no JSON, and every servers
\* array of at most n of the entries (names are unique, as the schema asks).
Documents(n) ==
    {[kind |-> "missing", servers |-> <<>>], [kind |-> "invalid", servers |-> <<>>]}
    \cup {[kind |-> "object", servers |-> Chosen(chosen, 1)] :
             chosen \in {c \in SUBSET (1..Len(Entries)) : Cardinality(c) <= n}}

\* Names of the tools a provider lists.
ToolNames == {"c", "b_c"}

ConnectOutcomes ==
    {Listed(<<t>>) : t \in ToolNames} \cup {ListFailed, ConnectFailed("ECONNREFUSED")}

\* Names an invocation asks for: the local name of tool "c" of provider "a",
\* and one that is never registered.
InvokeNames ==
    {GetPrefixedName([serverName |-> "a", originalName |-> "c"], ToolPrefix), "nope"}

InvokeOutcomes == {Returned("ok"), Threw("Error: Not connected")}

----------------------------------------------------------------------------
(* The state machine.                                                      *)

\* No call has been made on the MemoryManager directly.
NoMemCall == [op |-> "none", maxMessages |-> 0, threw |-> <<>>, window |-> <<>>, calls |-> 0]

\* No second initialize() call is in progress.
NoSecondInit == [pc |-> "idle", configs |-> <<>>, cfgIdx |-> 0]

BusOp(op, arg) == [op |-> op, arg |-> arg]

\* Tasks given to the agent.
AgentTasks == {"Test Task"}

\* What the model may answer first: the dummy client's text, the JSON form of
\* a tool call, the "Action:" form naming a tool that is not registered, the
\* same form in lower case and without a space, a text that holds "action:"
\* inside a line, or nothing because the call threw.
FirstOutcomes ==
    {Returned("I have completed the task"),
     Returned("{\"action\": \"webSearch\", \"args\": {\"query\": \"q\"}}"),
     Returned("Thinking.\nAction: nope"),
     Returned("action:webSearch"),
     Returned(" Next action: none\n"),
     Threw(ModelError)}

\* What the model may answer to the follow-up.
FollowUpOutcomes ==
    {Returned("Found it"), Returned("Action: webSearch"), Threw(ModelError)}

\* What a tool function may do.
ToolOutcomes == {Returned("[Mock] Search results for: q"), Threw(ModelError)}

\* part_004:174-183: the functions the tools index exports (part_005).
LocalToolNames == {"webSearch"}

Init ==
    /\ pc = "idle"
    /\ userTask = ""
    /\ analysis = ""
    /\ parsed = <<>>
    /\ delegations = <<>>
    /\ idx = 0
    /\ results = <<>>
    /\ prompt = ""
    /\ finalResult = ""
    /\ thrown = ""
    /\ history = [a \in Agents |-> <<>>]
    /\ modelCalls = <<>>
    /\ messages = <<>>
    /\ clock = 0
    /\ lastOp = BusOp("none", "")
    /\ ret = <<>>
    /\ runs = 0
    /\ logBase = 0
    /\ failed = {}
    /\ workers = NewWorkers
    /\ callContext = <<>>
    /\ replies = <<>>
    /\ settingsMcpEnabled = <<>>
    /\ document = [kind |-> "missing", servers |-> <<>>]
    /\ configs = <<>>
    /\ cfgIdx = 0
    /\ initPc = "idle"
    /\ connections = <<>>
    /\ servers = <<>>
    /\ initialized = FALSE
    /\ attempts = <<>>
    /\ shutPc = "idle"
    /\ shutIdx = 0
    /\ closeCalls = <<>>
    /\ availableTools = <<>>
    /\ forwarded = <<>>
    /\ observation = ""
    /\ raised = FALSE
    /\ inits = 0
    /\ skipped = 0
    /\ shutdowns = 0
    /\ invocations = 0
    /\ invoked = [name |-> "", outcome |-> Returned("")]
    /\ initThrew = FALSE
    /\ shutThrew = FALSE
    /\ actPc = "idle"
    /\ actTask = ""
    /\ memory = <<>>
    /\ summary = ""
    /\ memoryFile = Payload("", <<>>)
    /\ memBase = 0
    /\ actPrompt = ""
    /\ actSystemPrompt = ""
    /\ firstReply = ""
    /\ toolName = <<>>
    /\ actTrace = <<>>
    /\ agentReply = Returned("")
    /\ actReturn = <<>>
    /\ acts = 0
    /\ secondInit = NoSecondInit
    /\ memCall = NoMemCall

\* new Date() reads a clock that moves on between any two steps.
Tick ==
    /\ clock < MaxClock
    /\ clock' = clock + 1
    /\ UNCHANGED <<swarmVars, messages, lastOp, ret, mcpVars, agentVars>>

Call(agent, purpose) == [agent |-> agent, purpose |-> purpose]

\* router.analyzeAndDelegate(task), up to the await of the planning call.
RouterStart(task) ==
    /\ pc = "idle"
    /\ pc' = "planning"
    /\ userTask' = task
    /\ prompt' = FullPrompt("router", task, NoContext)
    /\ modelCalls' = Append(modelCalls, Call("router", "plan"))
    /\ UNCHANGED <<analysis, parsed, delegations, idx, results, finalResult, thrown,
                   history, runs, logBase, failed, busVars, workers, callContext, replies, mcpVars, agentVars>>

\* router-agent.ts:50-79: the planning call settles and the plan is returned.
RouterReturn(outcome) ==
    /\ pc = "planning"
    /\ pc' = "planned"
    /\ analysis' = ExecuteResult("router", outcome)
    /\ history' = Remember(history, "router", userTask, outcome)
    /\ parsed' = ParseDelegations(analysis')
    /\ delegations' = PlanFrom(userTask, analysis')
    /\ prompt' = ""
    /\ replies' = Append(replies, outcome)
    /\ UNCHANGED <<userTask, idx, results, finalResult, thrown, modelCalls, runs,
                   logBase, failed, busVars, workers, callContext, mcpVars, agentVars>>

\* part_002:103-114: execute(task), up to the await of the planning call.
ExecuteStart(task) ==
    /\ pc \in {"idle", "done", "aborted"}
    /\ runs < MaxRuns
    /\ runs' = runs + 1
    /\ pc' = "planning"
    /\ userTask' = task
    /\ prompt' = FullPrompt("router", task, NoContext)
    /\ modelCalls' = <<Call("router", "plan")>>
    /\ analysis' = ""
    /\ parsed' = <<>>
    /\ delegations' = <<>>
    /\ idx' = 0
    /\ results' = <<>>
    /\ finalResult' = ""
    /\ thrown' = ""
    /\ logBase' = Len(messages)
    /\ failed' = {}
    /\ replies' = <<>>
    /\ UNCHANGED <<history, busVars, workers, callContext, mcpVars, agentVars>>

\* A further execute() that starts with an empty log: a plausible slip.
ExecuteAgainClearingLog(task) ==
    /\ pc \in {"idle", "done", "aborted"}
    /\ runs >= 1
    /\ runs <= MaxRuns
    /\ runs' = runs + 1
    /\ pc' = "planning"
    /\ userTask' = task
    /\ prompt' = FullPrompt("router", task, NoContext)
    /\ modelCalls' = <<Call("router", "plan")>>
    /\ analysis' = ""
    /\ parsed' = <<>>
    /\ delegations' = <<>>
    /\ idx' = 0
    /\ results' = <<>>
    /\ finalResult' = ""
    /\ thrown' = ""
    /\ messages' = <<>>
    /\ logBase' = 0
    /\ failed' = {}
    /\ replies' = <<>>
    /\ UNCHANGED <<history, clock, lastOp, ret, workers, callContext, mcpVars, agentVars>>

\* part_002:103-114: execute(task) is called again on an orchestrator that has
\* run before, with or without a reset() in between; one run more than
\* ExecuteStart allows.
ExecuteAgain(task) ==
    /\ pc \in {"idle", "done", "aborted"}
    /\ runs >= 1
    /\ runs <= MaxRuns
    /\ runs' = runs + 1
    /\ pc' = "planning"
    /\ userTask' = task
    /\ prompt' = FullPrompt("router", task, NoContext)
    /\ modelCalls' = <<Call("router", "plan")>>
    /\ analysis' = ""
    /\ parsed' = <<>>
    /\ delegations' = <<>>
    /\ idx' = 0
    /\ results' = <<>>
    /\ finalResult' = ""
    /\ thrown' = ""
    /\ logBase' = Len(messages)
    /\ failed' = {}
    /\ replies' = <<>>
    /\ UNCHANGED <<history, busVars, workers, callContext, mcpVars, agentVars>>

\* part_002:114-124: the plan arrives and the loop is entered.
PlanReturn(outcome) ==
    /\ pc = "planning"
    /\ pc' = "loop"
    /\ analysis' = ExecuteResult("router", outcome)
    /\ history' = Remember(history, "router", userTask, outcome)
    /\ parsed' = ParseDelegations(analysis')
    /\ delegations' = PlanFrom(userTask, analysis')
    /\ idx' = 1
    /\ results' = <<>>
    /\ prompt' = ""
    /\ replies' = Append(replies, outcome)
    /\ UNCHANGED <<userTask, finalResult, thrown, modelCalls, runs, logBase, failed, busVars, workers, callContext, mcpVars, agentVars>>

\* An orchestrator that registers a worker for an id it does not know: a
\* plausible slip.
DelegateUnknownRegistering ==
    /\ pc = "loop"
    /\ idx <= Len(delegations)
    /\ Lookup(delegations[idx].agent) = "undefined"
    /\ messages' = Send(messages, "router", delegations[idx].agent, "task",
                        delegations[idx].task, clock)
    /\ results' = Append(results,
                         "Error: Unknown agent '" \o delegations[idx].agent \o "'")
    /\ idx' = idx + 1
    /\ UNCHANGED <<pc, userTask, analysis, parsed, delegations, prompt, finalResult,
                   thrown, history, modelCalls, runs, logBase, failed, clock, lastOp, ret, callContext, replies, mcpVars, agentVars>>
    /\ workers' = (delegations[idx].agent :> [class |-> "BaseAgent",
                                              role |-> delegations[idx].agent])
                   @@ workers

\* A loop that skips an unknown worker without recording a result: a plausible
\* slip.
DelegateUnknownSilent ==
    /\ pc = "loop"
    /\ idx <= Len(delegations)
    /\ Lookup(delegations[idx].agent) = "undefined"
    /\ messages' = Send(messages, "router", delegations[idx].agent, "task",
                        delegations[idx].task, clock)
    /\ idx' = idx + 1
    /\ UNCHANGED <<pc, userTask, analysis, parsed, delegations, results, prompt,
                   finalResult, thrown, history, modelCalls, runs, logBase, failed,
                   clock, lastOp, ret, workers, callContext, replies, mcpVars, agentVars>>

\* part_002:125-144: a delegation whose worker lookup yields undefined.
DelegateUnknown ==
    /\ pc = "loop"
    /\ idx <= Len(delegations)
    /\ Lookup(delegations[idx].agent) = "undefined"
    /\ messages' = Send(messages, "router", delegations[idx].agent, "task",
                        delegations[idx].task, clock)
    /\ results' = Append(results,
                         "Error: Unknown agent '" \o delegations[idx].agent \o "'")
    /\ idx' = idx + 1
    /\ UNCHANGED <<pc, userTask, analysis, parsed, delegations, prompt, finalResult,
                   thrown, history, modelCalls, runs, logBase, failed, clock, lastOp, ret, workers, callContext, replies, mcpVars, agentVars>>

\* part_002:125-154: a delegation whose lookup yields an inherited property of
\* the registry object: it is truthy, and calling its execute is a TypeError
\* that rejects execute().
DelegateInherited ==
    /\ pc = "loop"
    /\ idx <= Len(delegations)
    /\ Lookup(delegations[idx].agent) = "inherited"
    /\ messages' = Send(messages, "router", delegations[idx].agent, "task",
                        delegations[idx].task, clock)
    /\ pc' = "aborted"
    /\ thrown' = "TypeError: worker.execute is not a function"
    /\ UNCHANGED <<userTask, analysis, parsed, delegations, idx, results, prompt,
                   finalResult, history, modelCalls, runs, logBase, failed, clock, lastOp, ret, workers, callContext, replies, mcpVars, agentVars>>

\* A loop that reads the worker's context before it logs the task: a plausible
\* slip.
DelegateWorkerContextFirst ==
    /\ pc = "loop"
    /\ idx <= Len(delegations)
    /\ Lookup(delegations[idx].agent) = "worker"
    /\ messages' = Send(messages, "router", delegations[idx].agent, "task",
                        delegations[idx].task, clock)
    /\ callContext' = GetContextFor(messages, delegations[idx].agent)
    /\ prompt' = FullPrompt(delegations[idx].agent, delegations[idx].task,
                            Context(callContext'))
    /\ modelCalls' = Append(modelCalls, Call(delegations[idx].agent, "delegation"))
    /\ pc' = "working"
    /\ UNCHANGED <<userTask, analysis, parsed, delegations, idx, results, finalResult,
                   thrown, history, runs, logBase, failed, clock, lastOp, ret, workers, replies, mcpVars, agentVars>>

\* A loop that starts the worker's call and goes on without awaiting it: a
\* plausible slip.
DelegateWorkerNotAwaited ==
    /\ pc = "loop"
    /\ idx <= Len(delegations)
    /\ Lookup(delegations[idx].agent) = "worker"
    /\ messages' = Send(messages, "router", delegations[idx].agent, "task",
                        delegations[idx].task, clock)
    /\ modelCalls' = Append(modelCalls, Call(delegations[idx].agent, "delegation"))
    /\ results' = Append(results, "[object Promise]")
    /\ idx' = idx + 1
    /\ UNCHANGED <<pc, userTask, analysis, parsed, delegations, prompt, finalResult,
                   thrown, history, runs, logBase, failed, clock, lastOp, ret, workers,
                   callContext, replies, mcpVars, agentVars>>

\* part_002:125-154: a delegation to a registered worker, up to the await of
\* its model call.
DelegateWorker ==
    /\ pc = "loop"
    /\ idx <= Len(delegations)
    /\ Lookup(delegations[idx].agent) = "worker"
    /\ messages' = Send(messages, "router", delegations[idx].agent, "task",
                        delegations[idx].task, clock)
    /\ callContext' = GetContextFor(messages', delegations[idx].agent)
    /\ prompt' = FullPrompt(delegations[idx].agent, delegations[idx].task,
                            Context(callContext'))
    /\ modelCalls' = Append(modelCalls, Call(delegations[idx].agent, "delegation"))
    /\ pc' = "working"
    /\ UNCHANGED <<userTask, analysis, parsed, delegations, idx, results, finalResult,
                   thrown, history, runs, logBase, failed, clock, lastOp, ret, workers, replies, mcpVars, agentVars>>

\* A loop that records the worker's result without logging it: a plausible
\* slip.
WorkerReturnWithoutMessage(outcome) ==
    /\ pc = "working"
    /\ LET agentName == delegations[idx].agent
           result == ExecuteResult(agentName, outcome)
       IN  /\ results' = Append(results, result)
           /\ history' = Remember(history, agentName, delegations[idx].task, outcome)
    /\ failed' = IF outcome.ok THEN failed ELSE failed \cup {idx}
    /\ idx' = idx + 1
    /\ pc' = "loop"
    /\ prompt' = ""
    /\ callContext' = <<>>
    /\ replies' = Append(replies, outcome)
    /\ UNCHANGED <<userTask, analysis, parsed, delegations, finalResult, thrown,
                   modelCalls, runs, logBase, messages, clock, lastOp, ret, workers, mcpVars, agentVars>>

\* part_002:154-158: the worker's call settles; its result is recorded.
WorkerReturn(outcome) ==
    /\ pc = "working"
    /\ LET agentName == delegations[idx].agent
           result == ExecuteResult(agentName, outcome)
       IN  /\ results' = Append(results, result)
           /\ history' = Remember(history, agentName, delegations[idx].task, outcome)
           /\ messages' = Send(messages, agentName, "router", "result", result, clock)
    /\ failed' = IF outcome.ok THEN failed ELSE failed \cup {idx}
    /\ idx' = idx + 1
    /\ pc' = "loop"
    /\ prompt' = ""
    /\ callContext' = <<>>
    /\ replies' = Append(replies, outcome)
    /\ UNCHANGED <<userTask, analysis, parsed, delegations, finalResult, thrown,
                   modelCalls, runs, logBase, clock, lastOp, ret, workers, mcpVars, agentVars>>

\* part_002:172 and router-agent.ts:126-136: the loop is over; the synthesis
\* prompt is built and its model call issued.
Synthesize ==
    /\ pc = "loop"
    /\ idx > Len(delegations)
    /\ prompt' = FullPrompt("router", SynthesisPrompt(delegations, results), NoContext)
    /\ modelCalls' = Append(modelCalls, Call("router", "synthesis"))
    /\ pc' = "synth"
    /\ UNCHANGED <<userTask, analysis, parsed, delegations, idx, results, finalResult,
                   thrown, history, runs, logBase, failed, busVars, workers, callContext, replies, mcpVars, agentVars>>

\* part_002:172-179: the synthesis call settles and execute() returns its text.
SynthReturn(outcome) ==
    /\ pc = "synth"
    /\ finalResult' = ExecuteResult("router", outcome)
    /\ history' = Remember(history, "router", SynthesisPrompt(delegations, results),
                           outcome)
    /\ pc' = "done"
    /\ prompt' = ""
    /\ replies' = Append(replies, outcome)
    /\ UNCHANGED <<userTask, analysis, parsed, delegations, idx, results, thrown,
                   modelCalls, runs, logBase, failed, busVars, workers, callContext, mcpVars, agentVars>>

\* A reset that forgets the workers' histories: a plausible slip.
ResetRouterOnly ==
    /\ pc \in {"done", "aborted"}
    /\ messages # <<>> \/ \E a \in Agents : history[a] # <<>>
    /\ messages' = <<>>
    /\ history' = [a \in Agents |->
                       IF a = "router"
                       THEN <<>> ELSE history[a]]
    /\ pc' = "idle"
    /\ logBase' = 0
    /\ UNCHANGED <<userTask, analysis, parsed, delegations, idx, results, prompt,
                   finalResult, thrown, modelCalls, runs, failed, clock, lastOp, ret, workers, callContext, replies, mcpVars, agentVars>>

\* part_002:192-196, called between runs.
Reset ==
    /\ pc \in {"done", "aborted"}
    /\ messages # <<>> \/ \E a \in Agents : history[a] # <<>>
    /\ messages' = <<>>
    /\ history' = [a \in Agents |->
                       IF a = "router" \/ \E w \in DOMAIN workers : workers[w].role = a
                       THEN <<>> ELSE history[a]]
    /\ pc' = "idle"
    /\ logBase' = 0
    /\ UNCHANGED <<userTask, analysis, parsed, delegations, idx, results, prompt,
                   finalResult, thrown, modelCalls, runs, failed, clock, lastOp, ret, workers, callContext, replies, mcpVars, agentVars>>

\* MessageBus.send called on a bus of its own.
BusSend(fromAgent, toAgent, messageType, content) ==
    /\ Len(messages) < MaxMessages
    /\ messages' = Send(messages, fromAgent, toAgent, messageType, content, clock)
    /\ lastOp' = BusOp("send", "")
    /\ ret' = <<>>
    /\ UNCHANGED <<swarmVars, clock, mcpVars, agentVars>>

BusGetContextFor(agentName) ==
    /\ ret' = GetContextFor(messages, agentName)
    /\ lastOp' = BusOp("getContextFor", agentName)
    /\ UNCHANGED <<swarmVars, messages, clock, mcpVars, agentVars>>

BusGetAllMessages ==
    /\ ret' = GetAllMessages(messages)
    /\ lastOp' = BusOp("getAllMessages", "")
    /\ UNCHANGED <<swarmVars, messages, clock, mcpVars, agentVars>>

\* part_002:64-66.
BusClear ==
    /\ messages' = <<>>
    /\ lastOp' = BusOp("clear", "")
    /\ ret' = <<>>
    /\ UNCHANGED <<swarmVars, clock, mcpVars, agentVars>>

\* part_001:128: the settings are read from the environment when the module
\* is loaded.
LoadSettings(value) ==
    /\ settingsMcpEnabled = <<>>
    /\ settingsMcpEnabled' = <<ParseEnvBoolean(value, FALSE)>>
    /\ UNCHANGED <<swarmVars, busVars, agentVars, secondInit, document, configs, cfgIdx, initPc, connections,
                   servers, initialized, attempts, shutPc, shutIdx, closeCalls,
                   availableTools, forwarded, observation, raised, inits, skipped, shutdowns,
                   invocations, invoked, initThrew, shutThrew>>

\* An initialize() that does not look at the initialized flag: a plausible
\* slip.
InitializeUnguarded(doc) ==
    /\ settingsMcpEnabled = <<TRUE>>
    /\ initPc = "idle"
    /\ inits + skipped + shutdowns + invocations < MaxCalls
    /\ inits' = inits + 1
    /\ document' = doc
    /\ configs' = LoadMCPServerConfigs(doc)
    /\ IF Len(configs') = 0
       THEN /\ initPc' = "idle"
            /\ cfgIdx' = 0
            /\ attempts' = <<>>
       ELSE /\ initPc' = "connecting"
            /\ cfgIdx' = 1
            /\ attempts' = <<configs'[1]>>
    /\ UNCHANGED <<swarmVars, busVars, agentVars, secondInit, settingsMcpEnabled, connections, servers,
                   initialized, shutPc, shutIdx, closeCalls, availableTools, forwarded,
                   observation, raised, skipped, shutdowns, invocations, invoked,
                   initThrew, shutThrew>>

\* part_006:242-262: initialize(), up to the await of the first connectServer.
\* It returns at once when the manager is initialized or MCP is disabled.
Initialize(doc) ==
    /\ settingsMcpEnabled # <<>>
    /\ inits + skipped + shutdowns + invocations < MaxCalls
    /\ IF initialized \/ settingsMcpEnabled = <<FALSE>>
       THEN /\ doc = document   \* the file is not read: any content does
            /\ skipped' = skipped + 1
            /\ UNCHANGED <<inits, document, configs, initPc, cfgIdx, attempts>>
       ELSE /\ initPc = "idle"
            /\ inits' = inits + 1
            /\ document' = doc
            /\ configs' = LoadMCPServerConfigs(doc)
            /\ IF Len(configs') = 0
               THEN /\ initPc' = "idle"
                    /\ cfgIdx' = 0
                    /\ attempts' = <<>>
               ELSE /\ initPc' = "connecting"
                    /\ cfgIdx' = 1
                    /\ attempts' = <<configs'[1]>>
            /\ UNCHANGED skipped
    /\ UNCHANGED <<swarmVars, busVars, agentVars, secondInit, settingsMcpEnabled, connections, servers,
                   initialized, shutPc, shutIdx, closeCalls, availableTools, forwarded,
                   observation, raised, shutdowns, invocations, invoked, initThrew,
                   shutThrew>>

\* part_006:261-274 and 280-324: connectServer settles for the configuration
\* at hand; its record is stored and the loop goes on, or initialize() returns.
ConnectReturn(outcome) ==
    /\ initPc = "connecting"
    /\ LET config == configs[cfgIdx]
           done == ConnectServer(config, outcome)
       IN  IF done.threw
           THEN /\ initThrew' = TRUE
                /\ initPc' = "idle"
                /\ cfgIdx' = 0
                /\ UNCHANGED <<connections, servers, initialized, attempts>>
           ELSE /\ connections' = Append(connections, done.record)
                /\ servers' = MapSet(servers, config.name, Len(connections) + 1)
                /\ initThrew' = initThrew
                /\ IF cfgIdx < Len(configs)
                   THEN /\ cfgIdx' = cfgIdx + 1
                        /\ attempts' = Append(attempts, configs[cfgIdx + 1])
                        /\ UNCHANGED <<initPc, initialized>>
                   ELSE /\ cfgIdx' = 0
                        /\ initPc' = "idle"
                        /\ initialized' = TRUE
                        /\ attempts' = attempts
    /\ UNCHANGED <<swarmVars, busVars, agentVars, secondInit, settingsMcpEnabled, document, configs, shutPc,
                   shutIdx, closeCalls, availableTools, forwarded, observation, raised,
                   inits, skipped, shutdowns, invocations, invoked, shutThrew>>

\* part_006:242-262: initialize() is called while an earlier call is awaiting
\* a connect.  `initialized` is still false (it is set at line 274 only), so
\* this call reads the configuration too and starts on its first provider.
InitializeOverlapping ==
    /\ settingsMcpEnabled = <<TRUE>>
    /\ ~initialized
    /\ initPc = "connecting"
    /\ secondInit.pc = "idle"
    /\ inits + skipped + shutdowns + invocations < MaxCalls
    /\ inits' = inits + 1
    /\ LET loaded == LoadMCPServerConfigs(document)
       IN  IF Len(loaded) = 0
           THEN UNCHANGED <<secondInit, attempts>>
           ELSE /\ secondInit' = [pc |-> "connecting", configs |-> loaded, cfgIdx |-> 1]
                /\ attempts' = Append(attempts, loaded[1])
    /\ UNCHANGED <<swarmVars, busVars, agentVars, settingsMcpEnabled, document, configs,
                   cfgIdx, initPc, connections, servers, initialized, shutPc, shutIdx,
                   closeCalls, availableTools, forwarded, observation, raised, skipped,
                   shutdowns, invocations, invoked, initThrew, shutThrew>>

\* part_006:261-274 and 280-324: connectServer settles for the configuration
\* the overlapping call is at; its record is stored under the provider's name
\* (Map.set, line 323) and the loop goes on, or the call returns.
ConnectReturnOverlapping(outcome) ==
    /\ secondInit.pc = "connecting"
    /\ LET config == secondInit.configs[secondInit.cfgIdx]
           done == ConnectServer(config, outcome)
       IN  IF done.threw
           THEN /\ initThrew' = TRUE
                /\ secondInit' = NoSecondInit
                /\ UNCHANGED <<connections, servers, initialized, attempts>>
           ELSE /\ connections' = Append(connections, done.record)
                /\ servers' = MapSet(servers, config.name, Len(connections) + 1)
                /\ initThrew' = initThrew
                /\ IF secondInit.cfgIdx < Len(secondInit.configs)
                   THEN /\ secondInit' = [secondInit EXCEPT !.cfgIdx = @ + 1]
                        /\ attempts' = Append(attempts,
                                              secondInit.configs[secondInit.cfgIdx + 1])
                        /\ UNCHANGED initialized
                   ELSE /\ secondInit' = NoSecondInit
                        /\ initialized' = TRUE
                        /\ attempts' = attempts
    /\ UNCHANGED <<swarmVars, busVars, agentVars, settingsMcpEnabled, document, configs,
                   cfgIdx, initPc, shutPc, shutIdx, closeCalls, availableTools, forwarded,
                   observation, raised, inits, skipped, shutdowns, invocations, invoked,
                   shutThrew>>

\* part_004:116-119: the agent puts the manager's callables into its tools.
LoadTools ==
    /\ availableTools' = GetAllToolsAsCallables(servers, connections, ToolPrefix)
                         @@ availableTools
    /\ availableTools' # availableTools
    /\ UNCHANGED <<swarmVars, busVars, agentVars, secondInit, settingsMcpEnabled, document, configs, cfgIdx,
                   initPc, connections, servers, initialized, attempts, shutPc, shutIdx,
                   closeCalls, forwarded, observation, raised, inits, skipped, shutdowns,
                   invocations, invoked, initThrew, shutThrew>>

\* Invoke, except that a call the session fails marks the connection as failed.
InvokeMarkingFailed(name, outcome) ==
    /\ inits + skipped + shutdowns + invocations < MaxCalls
    /\ invocations' = invocations + 1
    /\ invoked' = [name |-> name, outcome |-> outcome]
    /\ IF name \notin DOMAIN availableTools
       THEN /\ observation' = "Requested tool '" \o name \o "' is not registered."
            /\ raised' = FALSE
            /\ forwarded' = forwarded
            /\ connections' = connections
       ELSE LET wrapper == availableTools[name]
                called == ToolWrapper(connections[wrapper.connection], wrapper.tool,
                                      outcome)
            IN  /\ forwarded' = IF called.forwards
                                THEN Append(forwarded,
                                            [connection |-> wrapper.connection,
                                             tool |-> wrapper.tool.originalName])
                                ELSE forwarded
                /\ raised' = ~called.result.ok
                /\ observation' = IF called.result.ok THEN called.result.text
                                  ELSE "Error executing tool '" \o name \o "': "
                                       \o called.result.text
                /\ connections' =
                      IF called.forwards /\ ~outcome.ok
                      THEN [connections EXCEPT ![wrapper.connection].connected = FALSE,
                                               ![wrapper.connection].error = <<outcome.text>>]
                      ELSE connections
    /\ UNCHANGED <<swarmVars, busVars, agentVars, secondInit, settingsMcpEnabled, document, configs, cfgIdx,
                   initPc, servers, initialized, attempts, shutPc, shutIdx,
                   closeCalls, availableTools, inits, skipped, shutdowns, initThrew, shutThrew>>

\* part_004:394-406: the agent is asked for the tool `name`; `outcome` is what
\* the provider session does if the call reaches it.
Invoke(name, outcome) ==
    /\ inits + skipped + shutdowns + invocations < MaxCalls
    /\ invocations' = invocations + 1
    /\ invoked' = [name |-> name, outcome |-> outcome]
    /\ IF name \notin DOMAIN availableTools
       THEN /\ observation' = "Requested tool '" \o name \o "' is not registered."
            /\ raised' = FALSE
            /\ forwarded' = forwarded
       ELSE LET wrapper == availableTools[name]
                called == ToolWrapper(connections[wrapper.connection], wrapper.tool,
                                      outcome)
            IN  /\ forwarded' = IF called.forwards
                                THEN Append(forwarded,
                                            [connection |-> wrapper.connection,
                                             tool |-> wrapper.tool.originalName])
                                ELSE forwarded
                /\ raised' = ~called.result.ok
                /\ observation' = IF called.result.ok THEN called.result.text
                                  ELSE "Error executing tool '" \o name \o "': "
                                       \o called.result.text
    /\ UNCHANGED <<swarmVars, busVars, agentVars, secondInit, settingsMcpEnabled, document, configs, cfgIdx,
                   initPc, connections, servers, initialized, attempts, shutPc, shutIdx,
                   closeCalls, availableTools, inits, skipped, shutdowns, initThrew, shutThrew>>

\* part_006:549-565: the loop of shutdown() from position `from` on, `calls`
\* being the close() calls made so far: it runs to the next connection that
\* holds a session and awaits its close(), or ends, clears the Map and returns.
ShutdownFrom(from, calls) ==
    LET at == NextWithSession(servers, connections, from)
    IN  IF at = 0
        THEN /\ servers' = <<>>
             /\ initialized' = FALSE
             /\ shutPc' = "idle"
             /\ shutIdx' = 0
             /\ closeCalls' = calls
        ELSE /\ shutPc' = "closing"
             /\ shutIdx' = at
             /\ closeCalls' = Append(calls, [conn |-> servers[at].conn,
                                             outcome |-> "pending"])
             /\ UNCHANGED <<servers, initialized>>

\* part_006:546-557: shutdown() is called.
ShutdownStart ==
    /\ shutPc = "idle"
    /\ inits + skipped + shutdowns + invocations < MaxCalls
    /\ shutdowns' = shutdowns + 1
    /\ ShutdownFrom(1, closeCalls)
    /\ UNCHANGED <<swarmVars, busVars, agentVars, secondInit, settingsMcpEnabled, document, configs, cfgIdx,
                   initPc, connections, attempts, availableTools, forwarded, observation,
                   raised, inits, skipped, invocations, invoked, initThrew, shutThrew>>

\* A shutdown that gives up at the first close() that throws: a plausible slip.
ShutdownResumeAborting(outcome) ==
    /\ shutPc = "closing"
    /\ LET calls == [closeCalls EXCEPT ![Len(closeCalls)].outcome = outcome]
       IN  IF outcome = "threw"
           THEN /\ shutThrew' = TRUE
                /\ shutPc' = "idle"
                /\ shutIdx' = 0
                /\ closeCalls' = calls
                /\ UNCHANGED <<servers, initialized>>
           ELSE /\ ShutdownFrom(shutIdx + 1, calls)
                /\ shutThrew' = shutThrew
    /\ UNCHANGED <<swarmVars, busVars, agentVars, secondInit, settingsMcpEnabled, document, configs, cfgIdx,
                   initPc, connections, attempts, availableTools, forwarded, observation,
                   raised, inits, skipped, shutdowns, invocations, invoked, initThrew>>

\* part_006:555-565: the awaited close() settles, "closed" or "threw"; either
\* way the loop goes on.
ShutdownResume(outcome) ==
    /\ shutPc = "closing"
    /\ ShutdownFrom(shutIdx + 1, [closeCalls EXCEPT ![Len(closeCalls)].outcome = outcome])
    /\ UNCHANGED <<swarmVars, busVars, agentVars, secondInit, settingsMcpEnabled, document, configs, cfgIdx,
                   initPc, connections, attempts, availableTools, forwarded, observation,
                   raised, inits, skipped, shutdowns, invocations, invoked, initThrew, shutThrew>>

Event(kind, text) == [kind |-> kind, text |-> text]

\* part_004:174-183: the import of the tools index resolves and its functions
\* are set in availableTools.
RegisterLocalTools ==
    /\ ~(LocalToolNames \subseteq DOMAIN availableTools)
    /\ availableTools' = [n \in LocalToolNames |-> LocalTool(n)] @@ availableTools
    /\ UNCHANGED <<swarmVars, busVars, agentVars, secondInit, settingsMcpEnabled, document,
                   configs, cfgIdx, initPc, connections, servers, initialized, attempts,
                   shutPc, shutIdx, closeCalls, forwarded, observation, raised, inits,
                   skipped, shutdowns, invocations, invoked, initThrew, shutThrew>>

\* An act that sends the task to the model without thinking first: a
\* plausible slip.
ActStartWithoutThink(task) ==
    /\ actPc = "idle"
    /\ acts < MaxActs
    /\ acts' = acts + 1
    /\ actTask' = task
    /\ memBase' = Len(memory)
    /\ memory' = Append(memory, Entry("user", task))
    /\ actSystemPrompt' = AgentSystemPrompt(GetToolDescriptions(availableTools))
    /\ LET built == GetContextWindow(memory', summary, actSystemPrompt', WindowSize)
       IN  /\ summary' = built.summary
           /\ memoryFile' = Payload(summary', memory')
           /\ actPrompt' = InitialPrompt(FormatContextMessages(built.window), task)
    /\ actTrace' = <<Event("model", actPrompt')>>
    /\ actPc' = "first"
    /\ firstReply' = ""
    /\ toolName' = <<>>
    /\ actReturn' = <<>>
    /\ UNCHANGED <<swarmVars, busVars, mcpVars, memCall, agentReply>>

\* part_004:364-369: act(task), up to the await of think(task).
ActStart(task) ==
    /\ actPc = "idle"
    /\ acts < MaxActs
    /\ acts' = acts + 1
    /\ actTask' = task
    /\ memBase' = Len(memory)
    /\ memory' = Append(memory, Entry("user", task))
    /\ memoryFile' = Payload(summary, memory')
    /\ actTrace' = <<Event("think", task)>>
    /\ actPc' = "thinking"
    /\ actPrompt' = ""
    /\ actSystemPrompt' = ""
    /\ firstReply' = ""
    /\ toolName' = <<>>
    /\ actReturn' = <<>>
    /\ UNCHANGED <<swarmVars, busVars, mcpVars, memCall, summary, agentReply>>

\* part_004:340-359 and 372-389: think's timer fires; the system prompt and
\* the context window are built and the first model call is issued.
ThinkReturn ==
    /\ actPc = "thinking"
    /\ actSystemPrompt' = AgentSystemPrompt(GetToolDescriptions(availableTools))
    /\ LET built == GetContextWindow(memory, summary, actSystemPrompt', WindowSize)
       IN  /\ summary' = built.summary
           /\ memoryFile' = IF summary' # summary THEN Payload(summary', memory)
                            ELSE memoryFile
           /\ actPrompt' = InitialPrompt(FormatContextMessages(built.window), actTask)
    /\ actTrace' = Append(actTrace, Event("model", actPrompt'))
    /\ actPc' = "first"
    /\ UNCHANGED <<swarmVars, busVars, mcpVars, actTask, memory, memBase, memCall, firstReply,
                   toolName, actReturn, agentReply, acts>>

\* Observe, except that the observation is recorded before the first reply.
ObserveObservationFirst(first, name, text) ==
    /\ memory' = memory \o <<Entry("tool", name \o " output: " \o text),
                             Entry("assistant", first)>>
    /\ LET built == GetContextWindow(memory', summary, actSystemPrompt, WindowSize)
       IN  /\ summary' = built.summary
           /\ memoryFile' = Payload(summary', memory')
           /\ actPrompt' = FollowUpPrompt(FormatContextMessages(built.window), name,
                                          text)
    /\ actTrace' = Append(actTrace, Event("model", actPrompt'))
    /\ actPc' = "followup"

\* part_004:409-422: the first reply and the observation are recorded, the
\* context window is built again and the follow-up model call is issued.
Observe(first, name, text) ==
    /\ memory' = memory \o <<Entry("assistant", first),
                             Entry("tool", name \o " output: " \o text)>>
    /\ LET built == GetContextWindow(memory', summary, actSystemPrompt, WindowSize)
       IN  /\ summary' = built.summary
           /\ memoryFile' = Payload(summary', memory')
           /\ actPrompt' = FollowUpPrompt(FormatContextMessages(built.window), name,
                                          text)
    /\ actTrace' = Append(actTrace, Event("model", actPrompt'))
    /\ actPc' = "followup"

\* part_004:425-426: the final response is recorded and returned.
Finish(finalResponse) ==
    /\ memory' = Append(memory, Entry("assistant", finalResponse))
    /\ memoryFile' = Payload(summary, memory')
    /\ actReturn' = <<finalResponse>>
    /\ actPc' = "idle"

\* part_004:389-402: the first model call settles; the reply is the final
\* answer, or asks for a tool that is not registered, or for one that is,
\* which is called.
FirstReply(outcome) ==
    /\ actPc = "first"
    /\ agentReply' = outcome
    /\ firstReply' = CallGemini(outcome)
    /\ toolName' = ExtractToolCall(firstReply').name
    /\ IF toolName' = <<>>
       THEN /\ Finish(firstReply')
            /\ UNCHANGED <<summary, actPrompt, actTrace>>
       ELSE IF toolName'[1] \notin DOMAIN availableTools
       THEN /\ Observe(firstReply', toolName'[1],
                       "Requested tool '" \o toolName'[1] \o "' is not registered.")
            /\ UNCHANGED actReturn
       ELSE /\ actPc' = "tool"
            /\ actTrace' = Append(actTrace, Event("tool", toolName'[1]))
            /\ UNCHANGED <<memory, memoryFile, summary, actPrompt, actReturn>>
    /\ UNCHANGED <<swarmVars, busVars, mcpVars, actTask, memBase, memCall, actSystemPrompt,
                   acts>>

\* part_004:402-422: the tool function settles.  A local function returns or
\* throws as `outcome` says; a wrapper of a provider's tool forwards the call
\* to its session, which does as `outcome` says.
ToolReturn(outcome) ==
    /\ actPc = "tool"
    /\ LET name == toolName[1]
           fn == availableTools[name]
           called == IF fn.connection = 0
                     THEN [forwards |-> FALSE, result |-> outcome]
                     ELSE ToolWrapper(connections[fn.connection], fn.tool, outcome)
       IN  /\ forwarded' = IF called.forwards
                           THEN Append(forwarded, [connection |-> fn.connection,
                                                   tool |-> fn.tool.originalName])
                           ELSE forwarded
           /\ Observe(firstReply, name,
                      IF called.result.ok THEN called.result.text
                      ELSE "Error executing tool '" \o name \o "': "
                           \o called.result.text)
    /\ UNCHANGED <<swarmVars, busVars, actTask, memBase, memCall, actSystemPrompt, firstReply,
                   toolName, actReturn, agentReply, acts, settingsMcpEnabled, document,
                   configs, cfgIdx, initPc, connections, servers, initialized, attempts,
                   shutPc, shutIdx, closeCalls, availableTools, observation, raised,
                   inits, skipped, shutdowns, invocations, invoked, initThrew,
                   shutThrew, secondInit>>

\* part_004:422-426: the follow-up model call settles.
FollowUpReply(outcome) ==
    /\ actPc = "followup"
    /\ agentReply' = outcome
    /\ Finish(CallGemini(outcome))
    /\ UNCHANGED <<swarmVars, busVars, mcpVars, actTask, memBase, memCall, summary, actPrompt,
                   actSystemPrompt, firstReply, toolName, actTrace, acts>>

\* The error fs.writeFileSync throws when the memory file cannot be written.
WriteError == "Error: ENOSPC: no space left on device, write"

\* part_004:366 with check-auth.ts:121-128 and 110-116: act is called and the
\* write of the memory file fails.  addEntry has pushed the entry before
\* saveMemory throws; line 366 is outside the try of act, so the error leaves
\* act: think is not called and nothing is returned.
ActStartWriteFails(task) ==
    /\ actPc = "idle"
    /\ acts < MaxActs
    /\ acts' = acts + 1
    /\ actTask' = task
    /\ memBase' = Len(memory)
    /\ memory' = Append(memory, Entry("user", task))
    /\ actTrace' = <<>>
    /\ actPc' = "threw"
    /\ actPrompt' = ""
    /\ actSystemPrompt' = ""
    /\ firstReply' = ""
    /\ toolName' = <<>>
    /\ actReturn' = <<>>
    /\ UNCHANGED <<swarmVars, busVars, mcpVars, memCall, summary, memoryFile, agentReply>>

\* part_004:428-432: the catch of act turns an error into the text it returns.
Caught(error) ==
    /\ actReturn' = <<"Error generating response: " \o error>>
    /\ actPc' = "idle"

\* part_004:409-410 and 428-432: the first reply and the observation are to be
\* recorded and the write of the memory file fails after `good` writes.
ObserveWriteFails(first, name, text, good) ==
    /\ memory' = IF good = 0 THEN Append(memory, Entry("assistant", first))
                 ELSE memory \o <<Entry("assistant", first),
                                  Entry("tool", name \o " output: " \o text)>>
    /\ memoryFile' = IF good = 0 THEN memoryFile
                     ELSE Payload(summary, Append(memory, Entry("assistant", first)))
    /\ Caught(WriteError)

\* part_004:425 and 428-432: the final response is to be recorded and the
\* write of the memory file fails.
FinishWriteFails(finalResponse) ==
    /\ memory' = Append(memory, Entry("assistant", finalResponse))
    /\ memoryFile' = memoryFile
    /\ Caught(WriteError)

\* part_004:389-410, 425: the first model call settles and a write of the
\* memory file that follows it fails.
FirstReplyWriteFails(outcome, good) ==
    /\ actPc = "first"
    /\ agentReply' = outcome
    /\ firstReply' = CallGemini(outcome)
    /\ toolName' = ExtractToolCall(firstReply').name
    /\ IF toolName' = <<>>
       THEN good = 0 /\ FinishWriteFails(firstReply')
       ELSE /\ toolName'[1] \notin DOMAIN availableTools
            /\ ObserveWriteFails(firstReply', toolName'[1],
                                 "Requested tool '" \o toolName'[1]
                                 \o "' is not registered.", good)
    /\ UNCHANGED <<swarmVars, busVars, mcpVars, actTask, memBase, memCall, actSystemPrompt,
                   acts, summary, actPrompt, actTrace>>

\* part_004:402-410: the tool function settles and a write of the memory file
\* that follows it fails.
ToolReturnWriteFails(outcome, good) ==
    /\ actPc = "tool"
    /\ LET name == toolName[1]
           fn == availableTools[name]
           called == IF fn.connection = 0
                     THEN [forwards |-> FALSE, result |-> outcome]
                     ELSE ToolWrapper(connections[fn.connection], fn.tool, outcome)
       IN  /\ forwarded' = IF called.forwards
                           THEN Append(forwarded, [connection |-> fn.connection,
                                                   tool |-> fn.tool.originalName])
                           ELSE forwarded
           /\ ObserveWriteFails(firstReply, name,
                                IF called.result.ok THEN called.result.text
                                ELSE "Error executing tool '" \o name \o "': "
                                     \o called.result.text, good)
    /\ UNCHANGED <<swarmVars, busVars, actTask, memBase, memCall, actSystemPrompt, firstReply,
                   toolName, agentReply, acts, summary, actPrompt, actTrace,
                   settingsMcpEnabled, document,
                   configs, cfgIdx, initPc, connections, servers, initialized, attempts,
                   shutPc, shutIdx, closeCalls, availableTools, observation, raised,
                   inits, skipped, shutdowns, invocations, invoked, initThrew,
                   shutThrew, secondInit>>

\* part_004:422-432: the follow-up model call settles and the write of the
\* memory file that follows it fails.
FollowUpReplyWriteFails(outcome) ==
    /\ actPc = "followup"
    /\ agentReply' = outcome
    /\ FinishWriteFails(CallGemini(outcome))
    /\ UNCHANGED <<swarmVars, busVars, mcpVars, actTask, memBase, memCall, summary, actPrompt,
                   actSystemPrompt, firstReply, toolName, actTrace, acts>>

\* The system prompt the MemoryManager's client passes.
MemPrompt == "S"

\* A call made on the MemoryManager directly.
MemCall(op, maxMessages, threw, window) ==
    [op |-> op, maxMessages |-> maxMessages, threw |-> threw, window |-> window,
     calls |-> memCall.calls + 1]

\* check-auth.ts:121-128: addEntry(role, content).
MemAddEntry(role, content) ==
    /\ Len(memory) < MaxEntries
    /\ memCall.calls < MaxMemCalls
    /\ memory' = Append(memory, Entry(role, content))
    /\ memoryFile' = Payload(summary, memory')
    /\ memCall' = MemCall("addEntry", 0, <<>>, <<>>)
    /\ UNCHANGED <<swarmVars, busVars, mcpVars, actPc, actTask, summary, memBase,
                   actPrompt, actSystemPrompt, firstReply, toolName, actTrace,
                   agentReply, actReturn, acts>>

\* check-auth.ts:157-207: getContextWindow(MemPrompt, maxMessages), with the
\* default summarizer.
MemGetContextWindow(maxMessages) ==
    /\ memCall.calls < MaxMemCalls
    /\ LET built == GetContextWindow(memory, summary, MemPrompt, maxMessages)
       IN  /\ summary' = built.summary
           /\ memoryFile' = IF summary' # summary THEN Payload(summary', memory)
                            ELSE memoryFile
           /\ memCall' = MemCall("getContextWindow", maxMessages, built.threw,
                                 built.window)
    /\ UNCHANGED <<swarmVars, busVars, mcpVars, actPc, actTask, memory, memBase,
                   actPrompt, actSystemPrompt, firstReply, toolName, actTrace,
                   agentReply, actReturn, acts>>

\* check-auth.ts:212-216: clearMemory().
MemClearMemory ==
    /\ memory # <<>>
    /\ memCall.calls < MaxMemCalls
    /\ memory' = <<>>
    /\ summary' = ""
    /\ memoryFile' = Payload("", <<>>)
    /\ memCall' = MemCall("clearMemory", 0, <<>>, <<>>)
    /\ UNCHANGED <<swarmVars, busVars, mcpVars, actPc, actTask, memBase,
                   actPrompt, actSystemPrompt, firstReply, toolName, actTrace,
                   agentReply, actReturn, acts>>

Next ==
    \/ \E task \in SwarmTasks : ExecuteStart(task)
    \/ \E outcome \in PlanOutcomes : PlanReturn(outcome)
    \/ DelegateUnknown
    \/ DelegateInherited
    \/ DelegateWorker
    \/ \E outcome \in WorkerOutcomes : WorkerReturn(outcome)
    \/ Synthesize
    \/ \E outcome \in SynthOutcomes : SynthReturn(outcome)
    \/ Reset
    \/ Tick

Spec == Init /\ [][Next]_vars

RouterNext ==
    \/ \E task \in RouterTasks : RouterStart(task)
    \/ \E outcome \in RouterOutcomes : RouterReturn(outcome)

SpecRouter == Init /\ [][RouterNext]_vars

ParserNext ==
    \/ \E task \in ParserTasks : RouterStart(task)
    \/ \E outcome \in ParserOutcomes : RouterReturn(outcome)

SpecParser == Init /\ [][ParserNext]_vars

BusNext ==
    \/ \E f \in BusAgents, t \in BusAgents, ty \in BusTypes, c \in BusContents :
          BusSend(f, t, ty, c)
    \/ \E a \in BusAgents \cup {"x"} : BusGetContextFor(a)
    \/ BusGetAllMessages
    \/ BusClear
    \/ Tick

SpecBus == Init /\ [][BusNext]_vars

\* The tool layer: the settings, initialize() and shutdown() of the manager,
\* which may interleave, and the agent's loading and invoking of tools.
McpNext ==
    \/ \E value \in EnvValues : LoadSettings(value)
    \/ \E doc \in Documents(MaxServers) : Initialize(doc)
    \/ \E outcome \in ConnectOutcomes : ConnectReturn(outcome)
    \/ LoadTools
    \/ \E name \in InvokeNames, outcome \in InvokeOutcomes : Invoke(name, outcome)
    \/ ShutdownStart
    \/ \E outcome \in {"closed", "threw"} : ShutdownResume(outcome)

SpecMcp == Init /\ [][McpNext]_vars

\* The manager with initialize() calls that may overlap, as two calls of
\* MCPClientManagerSync.initialize() in a row do (part_006:605-612).
McpOverlapNext ==
    \/ \E value \in EnvValues : LoadSettings(value)
    \/ \E doc \in Documents(MaxServers) : Initialize(doc)
    \/ \E outcome \in ConnectOutcomes : ConnectReturn(outcome)
    \/ InitializeOverlapping
    \/ \E outcome \in ConnectOutcomes : ConnectReturnOverlapping(outcome)
    \/ ShutdownStart
    \/ \E outcome \in {"closed", "threw"} : ShutdownResume(outcome)

SpecMcpOverlap == Init /\ [][McpOverlapNext]_vars

\* The orchestrator and its message bus together: runs of execute, reset, and
\* the bus's own operations in between.
LogPlan == Returned("- agent: x\n- task: t\n- agent: coder\n- task: u")

LogNext ==
    \/ ExecuteStart("hello")
    \/ PlanReturn(LogPlan)
    \/ DelegateUnknown
    \/ DelegateWorker
    \/ WorkerReturn(Returned(" done\n"))
    \/ Synthesize
    \/ SynthReturn(Returned(DummyReply))
    \/ Reset
    \/ BusSend("coder", "router", "result", "a")
    \/ BusGetContextFor("coder")
    \/ BusGetAllMessages
    \/ BusClear
    \/ Tick

SpecLog == Init /\ [][LogNext]_vars

\* Plans of the runs of one orchestrator: two registered workers, and an
\* unknown id followed by a registered worker.
RunPlans ==
    {Returned("- agent: coder\n- task: write X\n- agent: reviewer\n- task: review X"),
     Returned("- agent: x\n- task: t\n- agent: coder\n- task: u")}

\* One orchestrator over several execute() calls, with and without reset().
RunsNext ==
    \/ ExecuteStart("hello")
    \/ ExecuteAgain("hello")
    \/ \E outcome \in RunPlans : PlanReturn(outcome)
    \/ DelegateUnknown
    \/ DelegateWorker
    \/ \E outcome \in WorkerOutcomes : WorkerReturn(outcome)
    \/ Synthesize
    \/ SynthReturn(Returned(DummyReply))
    \/ Reset

SpecRuns == Init /\ [][RunsNext]_vars

\* The GeminiAgent alone: acts one after the other, and the local tools
\* arriving at any moment.
AgentNext ==
    \/ \E task \in AgentTasks : ActStart(task)
    \/ ThinkReturn
    \/ \E outcome \in FirstOutcomes : FirstReply(outcome)
    \/ \E outcome \in ToolOutcomes : ToolReturn(outcome)
    \/ \E outcome \in FollowUpOutcomes : FollowUpReply(outcome)
    \/ RegisterLocalTools

SpecAgent == Init /\ [][AgentNext]_vars

\* The GeminiAgent with a memory file whose writes may fail.
AgentFaultNext ==
    \/ AgentNext
    \/ \E task \in AgentTasks : ActStartWriteFails(task)
    \/ \E outcome \in FirstOutcomes, good \in {0, 1} : FirstReplyWriteFails(outcome, good)
    \/ \E outcome \in ToolOutcomes, good \in {0, 1} : ToolReturnWriteFails(outcome, good)
    \/ \E outcome \in FollowUpOutcomes : FollowUpReplyWriteFails(outcome)

SpecAgentFaults == Init /\ [][AgentFaultNext]_vars

\* The MemoryManager alone: entries of two roles, and context windows of at
\* most two messages (0 is the argument getContextWindow rejects).
MemRoles == {"user", "assistant"}

MemContents == {"a", "b"}

MemWindows == {0, 1, 2}

MemoryNext ==
    \/ \E role \in MemRoles, content \in MemContents : MemAddEntry(role, content)
    \/ \E maxMessages \in MemWindows : MemGetContextWindow(maxMessages)
    \/ MemClearMemory

SpecMemory == Init /\ [][MemoryNext]_vars

----------------------------------------------------------------------------
(* Properties of the router.  C1 and C2 are checked under SpecRouter, C3  *)
(* and C4 under SpecParser.                                                *)

\* C1: whatever the task and whatever the planning call answered (nothing,
\* text that is no plan, or the text of a caught error), the plan that
\* analyzeAndDelegate returns holds at least one delegation.
C1_PlanNeverEmpty == pc = "planned" => Len(delegations) >= 1

C1_Witness ==
    /\ pc = "planned"
    /\ analysis = "[router] Error executing task: " \o ModelError
    /\ parsed = <<>>
    /\ Len(delegations) = 1

\* Two characters that are the same letter, in either case.
SameLetter(c, d) ==
    \/ c = d
    \/ \E i \in 1..Len(UpperCase) :
          {c, d} = {CharAt(UpperCase, i), CharAt(LowerCase, i)}

ContainsIgnoringCase(text, word) ==
    \E i \in 1..(Len(text) - Len(word) + 1) :
        \A k \in 1..Len(word) : SameLetter(CharAt(text, i + k - 1), CharAt(word, k))

KeywordSets ==
    <<[agent |-> "coder", words |-> CodeKeywords],
      [agent |-> "reviewer", words |-> ReviewKeywords],
      [agent |-> "researcher", words |-> ResearchKeywords]>>

FallbackFor(task) ==
    LET hits == SelectSeq(KeywordSets,
                          LAMBDA ks : \E w \in ks.words : ContainsIgnoringCase(task, w))
    IN  IF Len(hits) = 0
        THEN <<[agent |-> "coder", task |-> task]>>
        ELSE [i \in 1..Len(hits) |-> [agent |-> hits[i].agent, task |-> task]]

\* C2: when nothing was parsed from the planning response, the plan is a
\* function of the task text alone: one delegation per keyword set that has a
\* word occurring in the task (letter case ignored), in the order coder,
\* reviewer, researcher, each with the task text unchanged; a single delegation
\* to coder when no set matches.
C2_FallbackByKeywords ==
    (pc = "planned" /\ parsed = <<>>) => delegations = FallbackFor(userTask)

C2_Witness ==
    /\ pc = "planned"
    /\ parsed = <<>>
    /\ userTask = "Find and CHECK"
    /\ analysis = "DELEGATION:\n- agent: coder"
    /\ delegations = <<[agent |-> "reviewer", task |-> "Find and CHECK"],
                       [agent |-> "researcher", task |-> "Find and CHECK"]>>

AnalysisLines == Split(analysis, "\n")
LineAt(i) == Trim(AnalysisLines[i])
IsAgentLine(i) == StartsWith(LineAt(i), "- agent:")
IsTaskLine(i) == StartsWith(LineAt(i), "- task:")

\* The '- task:' lines that follow the '- agent:' line i before the next
\* '- agent:' line or the end of the text.
TaskLinesOf(i) ==
    {j \in (i + 1)..Len(AnalysisLines) :
        IsTaskLine(j) /\ \A k \in (i + 1)..j : ~IsAgentLine(k)}

Last(S) == CHOOSE j \in S : \A k \in S : k <= j

\* The '- agent:' lines that yield a delegation: a worker id is given, a
\* '- task:' line follows in time and the last such line gives a text.
Emitting ==
    {i \in 1..Len(AnalysisLines) :
        /\ IsAgentLine(i)
        /\ FieldOf(LineAt(i)) # ""
        /\ TaskLinesOf(i) # {}
        /\ FieldOf(LineAt(Last(TaskLinesOf(i)))) # ""}

RECURSIVE InOrder(_)
InOrder(S) ==
    IF S = {} THEN <<>>
    ELSE LET i == CHOOSE j \in S : \A k \in S : j <= k
         IN  <<[agent |-> FieldOf(LineAt(i)),
                task |-> FieldOf(LineAt(Last(TaskLinesOf(i))))]>>
             \o InOrder(S \ {i})

\* C3: the response is parsed line by line.  Each '- agent:' line opens a
\* pending delegation; the parsed list holds, in the order of their '- agent:'
\* lines, the delegations whose '- agent:' line is followed by a '- task:' line
\* before the next '- agent:' line, and no other: a pending delegation that
\* meets another '- agent:' line first is discarded, and one that meets the end
\* of the input first is dropped.
C3_EmittedInAgentLineOrder == pc = "planned" => parsed = InOrder(Emitting)

C3_Witness ==
    /\ pc = "planned"
    /\ analysis = "- agent: x\n- agent: coder\n- task: write X\n- agent: x"
    /\ parsed = <<[agent |-> "coder", task |-> "write X"]>>

\* Lines that are neither a '- agent:' nor a '- task:' line.
OtherLines == {"", "DELEGATION:", "-agent: y", "Plan - task: z"}

\* White space put before and after a line.
Paddings == {<<"\t ", "">>, <<"", " \r">>, <<" ", " ">>}

InsertLine(lines, at, line) ==
    SubSeq(lines, 1, at) \o <<line>> \o SubSeq(lines, at + 1, Len(lines))

PadLine(lines, i, padding) ==
    [lines EXCEPT ![i] = padding[1] \o lines[i] \o padding[2]]

\* C4: the parsed list is the same when white space is put before or after any
\* line of the response, and when a line that is neither a '- agent:' nor a
\* '- task:' line is inserted anywhere, between a '- agent:' line and its
\* '- task:' line included.
C4_ParseIgnoresPaddingAndOtherLines ==
    pc = "planned" =>
        LET lines == AnalysisLines
        IN  /\ \A at \in 0..Len(lines), line \in OtherLines :
                  ParseLines(InsertLine(lines, at, line)) = parsed
            /\ \A i \in 1..Len(lines), padding \in Paddings :
                  ParseLines(PadLine(lines, i, padding)) = parsed

C4_Witness ==
    /\ pc = "planned"
    /\ analysis = "- agent: coder\n- task: write X\n- agent: x\n- task: a:b"
    /\ parsed = <<[agent |-> "coder", task |-> "write X"], [agent |-> "x", task |-> "a"]>>
    /\ ParseDelegations("- agent: coder\nDELEGATION:\n\t - task: write X \n- agent: x\n- task: a:b")
           = parsed

----------------------------------------------------------------------------
(* Properties of SwarmOrchestrator.execute.  Checked under Spec.           *)

\* The messages appended since the current run started, without timestamps.
RunLog ==
    [i \in 1..(Len(messages) - logBase) |->
        <<messages[logBase + i].from, messages[logBase + i].to,
          messages[logBase + i].type, messages[logBase + i].content>>]

CallsFor(purpose) == {i \in 1..Len(modelCalls) : modelCalls[i].purpose = purpose}

\* The run of the review task is over and its plan came from the fallback.
ReviewRunOver == pc = "done" /\ userTask = ReviewTask /\ parsed = <<>>

\* C5, as stated: for the task "review this function for security issues" with
\* no delegation parsed from the planning response, the fallback plan is the
\* single delegation to reviewer, and execute appends one 'task' and one
\* 'result' message for reviewer and issues one synthesis call.
C5_OnlyReviewerSelected ==
    ReviewRunOver =>
        /\ delegations = <<[agent |-> "reviewer", task |-> ReviewTask]>>
        /\ RunLog = << <<"router", "reviewer", "task", ReviewTask>>,
                       <<"reviewer", "router", "result", results[1]>> >>
        /\ Cardinality(CallsFor("synthesis")) = 1

\* C5, amended: the task also holds the code keyword "function", so the
\* fallback plan is coder then reviewer, both with the task text; execute
\* appends a 'task' and a 'result' message for coder, then a 'task' and a
\* 'result' message for reviewer, and issues one synthesis call.
C5_CoderThenReviewerSelected ==
    ReviewRunOver =>
        /\ delegations = <<[agent |-> "coder", task |-> ReviewTask],
                           [agent |-> "reviewer", task |-> ReviewTask]>>
        /\ Len(results) = 2
        /\ RunLog = << <<"router", "coder", "task", ReviewTask>>,
                       <<"coder", "router", "result", results[1]>>,
                       <<"router", "reviewer", "task", ReviewTask>>,
                       <<"reviewer", "router", "result", results[2]>> >>
        /\ Cardinality(CallsFor("synthesis")) = 1
        /\ modelCalls[Len(modelCalls)].purpose = "synthesis"

C5_Witness ==
    /\ ReviewRunOver
    /\ analysis = DummyReply
    /\ Len(RunLog) = 4
    /\ results = <<"done", "done">>

\* The delegation at position i has been dealt with: the loop has moved past
\* it, or execute was rejected while at it.
Handled(i) == i < idx \/ (i = idx /\ pc = "aborted")

UnknownAgentError(agentName) == "Error: Unknown agent '" \o agentName \o "'"

\* C6: every delegation whose worker id is none of coder, reviewer and
\* researcher gets the result "Error: Unknown agent '<id>'", and execute does
\* not throw at it: the loop goes on to the later delegations and the
\* synthesis.
C6_UnknownAgentReported ==
    \A i \in 1..Len(delegations) :
        (delegations[i].agent \notin Workers /\ Handled(i)) =>
            /\ ~(pc = "aborted" /\ idx = i)
            /\ Len(results) >= i
            /\ results[i] = UnknownAgentError(delegations[i].agent)

\* C7: a run whose plan is one delegation to an unregistered worker id x ends
\* by returning (it is not rejected) a final text that contains
\* "Unknown agent 'x'".
C7_FinalTextNamesUnknownAgent ==
    (/\ pc \in {"done", "aborted"}
     /\ Len(delegations) = 1
     /\ delegations[1].agent \notin Workers) =>
        /\ pc = "done"
        /\ Includes(finalResult, "Unknown agent '" \o delegations[1].agent \o "'")

\* C8: when the model call of a worker throws, the delegation's result is the
\* text "Error executing task: <cause>" (after the "[<role>] " that the agent
\* puts before it), and the run is not rejected: the remaining delegations and
\* the synthesis still take place.
C8_WorkerFailureContained ==
    \A i \in failed :
        /\ Len(results) >= i
        /\ Includes(results[i], "Error executing task: " \o ModelError)
        /\ pc # "aborted"
        /\ (pc = "done" => Len(results) = Len(delegations))

----------------------------------------------------------------------------
(* Properties of the MessageBus.  Checked under SpecBus.                   *)

\* Positions of the log whose message is sent by or to agentName.
Concerning(agentName) ==
    {i \in 1..Len(messages) :
        messages[i].from = agentName \/ messages[i].to = agentName}

\* How many elements of S are at or before p.
Rank(S, p) == Cardinality({q \in S : q <= p})

\* C9: getContextFor(identity) returns the messages of the log whose sender or
\* recipient is identity, each once and in the order of the log, and nothing
\* else; getAllMessages returns the whole log in its order.
C9_ContextIsTheLogFiltered ==
    /\ lastOp.op = "getContextFor" =>
          /\ Len(ret) = Cardinality(Concerning(lastOp.arg))
          /\ \A p \in Concerning(lastOp.arg) :
                ret[Rank(Concerning(lastOp.arg), p)] = messages[p]
    /\ lastOp.op = "getAllMessages" => ret = messages

C9_Witness ==
    /\ lastOp = BusOp("getContextFor", "coder")
    /\ Len(messages) = 3
    /\ messages[1].from = "coder" /\ messages[1].to = "coder"
    /\ messages[2].from = "router" /\ messages[2].to = "router"
    /\ messages[3].from = "router" /\ messages[3].to = "coder"
    /\ ret = <<messages[1], messages[3]>>

\* C10, as stated: the timestamp of every message is greater than the
\* timestamp of every message appended before it.
C10_TimestampsStrictlyIncrease ==
    \A i \in 1..Len(messages), j \in 1..Len(messages) :
        i < j => messages[i].timestamp < messages[j].timestamp

TimestampsNeverDecrease ==
    \A i \in 1..Len(messages), j \in 1..Len(messages) :
        i < j => messages[i].timestamp <= messages[j].timestamp

\* A step that is a call of send (the clock stands still during it).
SendAppendsOne ==
    (lastOp'.op = "send" /\ clock' = clock) =>
        /\ Len(messages') = Len(messages) + 1
        /\ SubSeq(messages', 1, Len(messages)) = messages
        /\ messages'[Len(messages')].timestamp = clock

\* C10, amended: every send succeeds and appends exactly one message, stamped
\* with the reading of the clock at the call; with a clock that is not set back
\* no message has a smaller timestamp than a message appended before it, and
\* messages sent within the same millisecond have equal timestamps.
C10_SendAppendsAndTimestampsNeverDecrease ==
    []TimestampsNeverDecrease /\ [][SendAppendsOne]_vars

C10_Witness ==
    /\ lastOp.op = "send"
    /\ Len(messages) = 3
    /\ messages[1].timestamp = messages[2].timestamp
    /\ messages[2].timestamp < messages[3].timestamp

(***************************************************************************)
(* Properties of the message log, the reset and the worker registry.  C11 *)
(* and C12 are checked under SpecLog, C13 under Spec.                      *)
(***************************************************************************)
IsPrefix(s, t) == Len(s) <= Len(t) /\ SubSeq(t, 1, Len(s)) = s

\* C11: the message log is append-only.  Every step that is neither a clear
\* nor a reset (a send, a getContextFor, a getAllMessages, any step of execute)
\* leaves the log as it was or extends it at the end: what the log held before
\* is a prefix of what it holds after, every field of every message included.
C11_LogAppendOnly == [][BusClear \/ Reset \/ IsPrefix(messages, messages')]_vars

C11_Witness ==
    /\ pc = "done"
    /\ Len(messages) > Len(RunLog)
    /\ Len(RunLog) >= 3
    /\ lastOp.op = "getAllMessages"
    /\ ret = messages

\* C12: a clear leaves the log empty; a reset leaves the log empty and the
\* conversation history of the router and of every worker empty, and leaves the
\* worker registry as it was.
C12_ClearAndResetEmpty ==
    [][/\ BusClear => messages' = <<>>
       /\ Reset => /\ messages' = <<>>
                   /\ \A a \in Agents : history'[a] = <<>>
                   /\ workers' = workers]_vars

\* A reset has been done after a run in which a worker's call succeeded (so
\* that the worker had a history to forget).
C12_Witness ==
    /\ pc = "idle"
    /\ runs >= 1
    /\ \E i \in 1..Len(modelCalls) : modelCalls[i].purpose = "delegation"
    /\ failed = {}
    /\ finalResult # ""
    /\ messages = <<>>
    /\ \A a \in Agents : history[a] = <<>>

\* C13: in every reachable state the registry maps exactly coder, reviewer and
\* researcher, each to the instance the constructor made for it.
C13_RegistryFixed ==
    /\ DOMAIN workers = {"coder", "reviewer", "researcher"}
    /\ \A w \in DOMAIN workers : workers[w] = NewWorkers[w]

\* A run that met an unknown worker id is over and the orchestrator was reset.
C13_Witness ==
    /\ pc = "idle"
    /\ runs >= 1
    /\ \E i \in 1..Len(results) : results[i] = "Error: Unknown agent 'x'"
    /\ DOMAIN workers = Workers

(***************************************************************************)
(* Properties of the configuration loader and the MCPClientManager.        *)
(* Checked under SpecMcp.                                                   *)
(***************************************************************************)
\* The connections the Map holds.
InRegistry == {servers[k].conn : k \in 1..Len(servers)}

\* The discovered capabilities: the tools of the connected connections of the
\* Map, each as <<connection, position>>.
Discovered ==
    UNION {{<<c, k>> : k \in 1..Len(connections[c].tools)} :
              c \in {conn \in InRegistry : connections[conn].connected}}

PairOf(d) ==
    <<connections[d[1]].tools[d[2]].serverName, connections[d[1]].tools[d[2]].originalName>>

LocalNameOf(d) == ToolPrefix \o PairOf(d)[1] \o "_" \o PairOf(d)[2]

\* C14: two discovered capabilities with distinct (provider name, original
\* name) pairs have different local names, and the callables hold one local
\* name per discovered capability.
C14_LocalNamesDistinct ==
    /\ \A d1, d2 \in Discovered :
          PairOf(d1) # PairOf(d2) => LocalNameOf(d1) # LocalNameOf(d2)
    /\ Cardinality(DOMAIN GetAllToolsAsCallables(servers, connections, ToolPrefix))
          = Cardinality({PairOf(d) : d \in Discovered})

\* A step in which the connectServer that initialize() awaits settles.
ConnectSettles == initPc = "connecting" /\ <<cfgIdx', initPc'>> # <<cfgIdx, initPc>>

\* A configuration that cannot be connected whatever the transport does.
CannotConnect(config) ==
    \/ config.transport = "stdio" /\ (config.command = <<>> \/ config.command = <<"">>)
    \/ config.transport \in {"http", "streamable-http", "sse"}
          /\ (config.url = <<>> \/ config.url = <<"">>)
    \/ config.transport \notin Transports

\* C15: when the connection attempt for one provider settles, initialize()
\* has not thrown; the Map holds that provider's record, which is either
\* connected or not connected with its error set (and is not connected when
\* the command or url is missing or the transport unsupported); the record of
\* every other provider is what it was; and the next configured provider, if
\* there is one, is attempted.
C15_ConnectFailureIsolated ==
    [][ConnectSettles =>
        LET config == configs[cfgIdx]
        IN  /\ ~initThrew'
            /\ MapHas(servers', config.name)
            /\ LET record == connections'[MapGet(servers', config.name)]
               IN  /\ record.config = config
                   /\ \/ record.connected /\ record.error = <<>>
                      \/ ~record.connected /\ record.error # <<>> /\ record.tools = <<>>
                   /\ CannotConnect(config) => ~record.connected
            /\ \A k \in 1..Len(servers) :
                  servers[k].name # config.name => servers'[k] = servers[k]
            /\ Len(servers') = Len(servers) + (IF MapHas(servers, config.name) THEN 0 ELSE 1)
            /\ SubSeq(connections', 1, Len(connections)) = connections
            /\ IF cfgIdx < Len(configs)
               THEN initPc' = "connecting" /\ attempts' = Append(attempts, configs[cfgIdx + 1])
               ELSE initPc' = "idle" /\ attempts' = attempts]_vars

\* initialize() has returned; a provider that failed to connect is followed in
\* the Map by one that connected, and a connected one by one that failed.
C15_Witness ==
    /\ initPc = "idle"
    /\ initialized
    /\ ~initThrew
    /\ \E k \in 1..Len(servers) : \E j \in (k + 1)..Len(servers) :
          /\ ~connections[servers[k].conn].connected
          /\ connections[servers[k].conn].error # <<>>
          /\ connections[servers[j].conn].connected
    /\ Len(attempts) = Len(servers)

\* The entries of the document with enabled: false, and the others.
DisabledEntries ==
    {k \in 1..Len(document.servers) : document.servers[k].enabled = <<FALSE>>}

EnabledEntries == (1..Len(document.servers)) \ DisabledEntries

\* The k-th smallest element of a set of numbers.
RECURSIVE Nth(_, _)
Nth(S, k) ==
    LET least == CHOOSE x \in S : \A y \in S : x <= y
    IN  IF k = 1 THEN least ELSE Nth(S \ {least}, k - 1)

\* C16: a provider with enabled: false is never attempted and never in the
\* Map (whose keys are the names the status reports); and when initialize()
\* has returned for a document whose other entries the schema accepts, exactly
\* those other entries were attempted, in their order.
C16_DisabledNeverAttempted ==
    /\ \A k \in DisabledEntries :
          document.servers[k].name # <<>> =>
             /\ \A i \in 1..Len(attempts) : attempts[i].name # document.servers[k].name[1]
             /\ ~MapHas(servers, document.servers[k].name[1])
    /\ (/\ inits >= 1
        /\ initPc = "idle"
        /\ ~initThrew
        /\ document.kind = "object"
        /\ \A k \in EnabledEntries : SchemaAccepts(document.servers[k]))
       => /\ Len(attempts) = Cardinality(EnabledEntries)
          /\ \A i \in 1..Len(attempts) :
                <<attempts[i].name>> = document.servers[Nth(EnabledEntries, i)].name

\* initialize() has returned for a document with a disabled provider and an
\* enabled one, which was attempted and connected.
C16_Witness ==
    /\ inits >= 1
    /\ initPc = "idle"
    /\ initialized
    /\ DisabledEntries # {}
    /\ Len(attempts) = 1
    /\ Len(servers) = 1
    /\ connections[servers[1].conn].connected

\* The document is missing, is no JSON, or holds an entry the schema rejects.
Malformed(doc) ==
    \/ doc.kind \in {"missing", "invalid"}
    \/ \E k \in 1..Len(doc.servers) : ~SchemaAccepts(doc.servers[k])

\* The same, counting only the entries that are not disabled.
MalformedWhereEnabled(doc) ==
    \/ doc.kind \in {"missing", "invalid"}
    \/ \E k \in 1..Len(doc.servers) :
          doc.servers[k].enabled # <<FALSE>> /\ ~SchemaAccepts(doc.servers[k])

NoProviders ==
    /\ configs = <<>>
    /\ attempts = <<>>
    /\ servers = <<>>
    /\ initPc = "idle"
    /\ ~initThrew

\* C17, as stated: when the document is missing, is no JSON or holds an entry
\* that violates the schema, the loader returns the empty list and
\* initialize() attempts no connection and returns with an empty registry.
C17_MalformedMeansNoProviders == (inits >= 1 /\ Malformed(document)) => NoProviders

\* C17, amended: the same for a document that is missing, is no JSON or holds
\* an entry that is not disabled and violates the schema.  (An entry with
\* enabled: false is dropped before the schema is applied to it.)
C17_MalformedEnabledMeansNoProviders ==
    (inits >= 1 /\ MalformedWhereEnabled(document)) => NoProviders

\* initialize() has returned for a document with an entry the schema accepts
\* and an enabled one it rejects.
C17_Witness ==
    /\ inits >= 1
    /\ document.kind = "object"
    /\ \E k \in 1..Len(document.servers) : SchemaAccepts(document.servers[k])
    /\ \E k \in EnabledEntries : ~SchemaAccepts(document.servers[k])
    /\ NoProviders

\* C18: an invocation never raises.  Asking for a name that is not registered
\* yields the "not registered" text and reaches no session; an error thrown by
\* the session the call was forwarded to comes back as a text that describes it.
C18_InvokeNeverRaises ==
    [][invocations' # invocations =>
        /\ ~raised'
        /\ invoked'.name \notin DOMAIN availableTools =>
              /\ observation' = "Requested tool '" \o invoked'.name \o "' is not registered."
              /\ forwarded' = forwarded
        /\ (invoked'.name \in DOMAIN availableTools /\ forwarded' # forwarded
                /\ ~invoked'.outcome.ok) =>
              observation' = "Error calling MCP tool '"
                             \o availableTools[invoked'.name].tool.originalName
                             \o "': " \o invoked'.outcome.text]_vars

\* A registered capability was invoked, the call was forwarded and the session
\* threw.
C18_Witness ==
    /\ invocations >= 1
    /\ invoked.name \in DOMAIN availableTools
    /\ ~invoked.outcome.ok
    /\ Len(forwarded) >= 1
    /\ ~raised
    /\ observation = "Error calling MCP tool 'c': Error: Not connected"

\* The connection is not in the Connected state: it never connected, or a
\* shutdown has taken it out of the registry.
NotConnected(c) == ~connections[c].connected \/ c \notin InRegistry

\* C19: invoking a capability whose connection is not Connected (it never
\* connected, or was disconnected by shutdown) yields the "not connected" text
\* and forwards nothing to the session.
C19_NotConnectedNotForwarded ==
    [][(/\ invocations' # invocations
        /\ invoked'.name \in DOMAIN availableTools
        /\ NotConnected(availableTools[invoked'.name].connection))
       => /\ observation' = "Error: MCP server '"
                \o connections[availableTools[invoked'.name].connection].config.name
                \o "' is not connected"
          /\ forwarded' = forwarded]_vars

\* A step in which shutdown() returns.
ShutdownReturns == shutPc' = "idle" /\ (shutPc = "closing" \/ shutdowns' # shutdowns)

\* C20: when shutdown() returns it has not thrown, close() has been called and
\* has settled (closed or thrown) on the session of every connection of the
\* Map, the Map is empty and the manager is uninitialized.
C20_ShutdownClosesAllAndClears ==
    [][ShutdownReturns =>
        /\ ~shutThrew'
        /\ servers' = <<>>
        /\ ~initialized'
        /\ \A k \in 1..Len(servers) :
              connections[servers[k].conn].session =>
                 \E j \in 1..Len(closeCalls') :
                    /\ closeCalls'[j].conn = servers[k].conn
                    /\ closeCalls'[j].outcome \in {"closed", "threw"}]_vars

\* shutdown() has returned; a close() that threw was followed by the close()
\* of another connection.
C20_Witness ==
    /\ shutPc = "idle"
    /\ shutdowns >= 1
    /\ servers = <<>>
    /\ ~initialized
    /\ \E j \in 1..(Len(closeCalls) - 1) :
          closeCalls[j].outcome = "threw" /\ closeCalls[j + 1].outcome = "closed"

----------------------------------------------------------------------------
(* The order of events within one SwarmOrchestrator.execute.  Checked      *)
(* under Spec.                                                              *)

\* The delegation at position i names one of the registered workers.
Registered(i) == delegations[i].agent \in Workers

TaskMessage(i) == <<"router", delegations[i].agent, "task", delegations[i].task>>

ResultMessage(i) == <<delegations[i].agent, "router", "result", results[i]>>

\* The messages that dealing with the first n delegations leaves in the log.
RECURSIVE LogOfFirst(_)
LogOfFirst(n) ==
    IF n = 0 THEN <<>>
    ELSE LogOfFirst(n - 1) \o <<TaskMessage(n)>>
         \o (IF Registered(n) THEN <<ResultMessage(n)>> ELSE <<>>)

\* C22: during execute the log of the run is, delegation by delegation in
\* plan order, the 'task' message from router to the worker id, followed for a
\* registered worker by the 'result' message from the worker to router with
\* the returned text, and by nothing for any other id; while a worker is being
\* called (or execute was rejected at the call) the last message is the
\* delegation's 'task' message, which is therefore appended before the lookup.
C22_TaskThenResultInPlanOrder ==
    /\ pc = "loop" => RunLog = LogOfFirst(idx - 1)
    /\ pc \in {"synth", "done"} => RunLog = LogOfFirst(Len(delegations))
    /\ pc \in {"working", "aborted"} =>
           RunLog = LogOfFirst(idx - 1) \o <<TaskMessage(idx)>>

C22_Witness ==
    /\ pc = "done"
    /\ Len(delegations) = 3
    /\ Registered(1) /\ ~Registered(2) /\ Registered(3)
    /\ Len(RunLog) = 5
    /\ RunLog[4] = TaskMessage(3)
    /\ RunLog[5] = ResultMessage(3)

\* C23: while a worker's call is outstanding, the context it was given is the
\* sequence of the log's messages sent to or from the worker's id, in append
\* order; it is not empty and its last message is the 'task' message of the
\* delegation at hand, which is the last message of the log.
C23_ContextIsWorkersLogEndingWithTask ==
    pc = "working" =>
        LET agentName == delegations[idx].agent
            S == {p \in 1..Len(messages) :
                      messages[p].to = agentName \/ messages[p].from = agentName}
        IN  /\ Len(callContext) = Cardinality(S)
            /\ \A p \in S : callContext[Rank(S, p)] = messages[p]
            /\ callContext # <<>>
            /\ callContext[Len(callContext)] = messages[Len(messages)]
            /\ LET last == callContext[Len(callContext)]
               IN  <<last.from, last.to, last.type, last.content>> = TaskMessage(idx)

C23_Witness ==
    /\ pc = "working"
    /\ idx = 3
    /\ Len(callContext) = 3
    /\ Len(messages) = 4
    /\ callContext[2].type = "result"

\* The position in the run's log of the 'task' message of delegation i.
TaskPosition(i) == i + Cardinality({j \in 1..(i - 1) : Registered(j)})

\* C24: while the synthesis call is outstanding, results has one entry per
\* delegation of the plan; the entry at position i is, for a registered
\* worker, the text of the 'result' message that the worker at position i sent
\* after its 'task' message, and for any other id the text
\* "Error: Unknown agent '<id>'".
C24_OneResultPerDelegation ==
    pc = "synth" =>
        /\ Len(results) = Len(delegations)
        /\ \A i \in 1..Len(delegations) :
              IF Registered(i)
              THEN /\ Len(RunLog) > TaskPosition(i)
                   /\ RunLog[TaskPosition(i)] = TaskMessage(i)
                   /\ RunLog[TaskPosition(i) + 1] =
                          <<delegations[i].agent, "router", "result", results[i]>>
              ELSE results[i] = UnknownAgentError(delegations[i].agent)

C24_Witness ==
    /\ pc = "synth"
    /\ Len(delegations) = 3
    /\ ~Registered(2)
    /\ results[1] = "done"
    /\ results[2] = UnknownAgentError("x")
    /\ Includes(results[3], "Error executing task")

\* The model calls issued in this run that have not settled yet.
Outstanding == Len(modelCalls) - Len(replies)

\* C25: at most one model call is outstanding at any time; none is while the
\* loop is between two delegations or execute is over; and while a worker's
\* call is outstanding every earlier call has settled and every earlier
\* delegation has its result recorded.
C25_OneCallAtATime ==
    /\ Outstanding \in {0, 1}
    /\ pc \in {"idle", "loop", "done", "aborted"} => Outstanding = 0
    /\ pc = "working" =>
           /\ Outstanding = 1
           /\ Len(results) = idx - 1
           /\ RunLog = LogOfFirst(idx - 1) \o <<TaskMessage(idx)>>

C25_Witness ==
    /\ pc = "working"
    /\ idx = 3
    /\ Len(modelCalls) = 3
    /\ Len(replies) = 2
    /\ Len(results) = 2

\* The model calls a run makes: the planning call, one call per delegation to
\* a registered worker, the synthesis call.
RECURSIVE WorkerCalls(_)
WorkerCalls(n) ==
    IF n = 0 THEN <<>>
    ELSE WorkerCalls(n - 1)
         \o (IF Registered(n) THEN <<Call(delegations[n].agent, "delegation")>>
             ELSE <<>>)

\* C26: a run that is over has issued one planning call, then one call per
\* delegation whose worker is registered and none for any other id, then one
\* synthesis call, in that order.
C26_PlanWorkersSynthesis ==
    pc \in {"done", "aborted"} =>
        modelCalls = <<Call("router", "plan")>> \o WorkerCalls(Len(delegations))
                     \o <<Call("router", "synthesis")>>

\* The call that settled last in this run.
LastReply == replies[Len(replies)]

\* The last call was a worker's and its text has just been recorded.
WorkerJustReturned == pc = "loop" /\ idx > 1 /\ Registered(idx - 1)

\* C27, as stated: the text a worker's execute returns, and the text the
\* synthesis returns, is the text of the model call, character for character.
C27_ReturnedVerbatim ==
    /\ (WorkerJustReturned /\ LastReply.ok) => results[idx - 1] = LastReply.text
    /\ (pc = "done" /\ LastReply.ok) => finalResult = LastReply.text

\* `returned` is `text` without the white space at its two ends.
WithoutOuterWhitespace(text, returned) ==
    /\ \E i \in 0..Len(text) :
          /\ i + Len(returned) <= Len(text)
          /\ SubSeq(text, i + 1, i + Len(returned)) = returned
          /\ \A k \in (1..i) \cup ((i + Len(returned) + 1)..Len(text)) :
                CharAt(text, k) \in Whitespace
    /\ returned # "" =>
          /\ CharAt(returned, 1) \notin Whitespace
          /\ CharAt(returned, Len(returned)) \notin Whitespace

\* C27, amended: the text a worker's execute returns, and the text the
\* synthesis returns, is the text of the model call without the white space at
\* its two ends, and otherwise character for character.
C27_ReturnedTrimmed ==
    /\ (WorkerJustReturned /\ LastReply.ok) =>
           WithoutOuterWhitespace(LastReply.text, results[idx - 1])
    /\ (pc = "done" /\ LastReply.ok) =>
           WithoutOuterWhitespace(LastReply.text, finalResult)

C27_Witness ==
    /\ WorkerJustReturned
    /\ LastReply = Returned(" done\n")
    /\ results[idx - 1] = "done"

\* The lines of the context block, last message last.
RECURSIVE BlockLines(_, _)
BlockLines(list, n) ==
    IF n = 0 THEN ""
    ELSE BlockLines(list, n - 1)
         \o "[" \o (IF list[n].from = "" THEN "unknown" ELSE list[n].from) \o "]: "
         \o list[n].content \o "\n"

\* The prompt that the role's instruction, a task and a list of context
\* messages make.
PromptOf(role, task, list) ==
    SystemPrompt(role) \o "\n\nTask: " \o task
    \o (IF list = <<>> THEN ""
        ELSE "\n\nContext from other agents:\n" \o BlockLines(list, Len(list)))

\* C28: the prompt of the outstanding model call is made of the agent's fixed
\* instruction, the task and the context messages alone, whatever the agent
\* was called with before; and for the role and task at hand a null context
\* yields the same prompt as an empty list.
C28_PromptFromRoleTaskContext ==
    /\ pc = "planning" => prompt = PromptOf("router", userTask, <<>>)
    /\ pc = "synth" =>
           prompt = PromptOf("router", SynthesisPrompt(delegations, results), <<>>)
    /\ pc = "working" =>
           /\ prompt = PromptOf(delegations[idx].agent, delegations[idx].task,
                                callContext)
           /\ FullPrompt(delegations[idx].agent, delegations[idx].task, NoContext)
              = FullPrompt(delegations[idx].agent, delegations[idx].task,
                           Context(<<>>))

C28_Witness ==
    /\ pc = "working"
    /\ history[delegations[idx].agent] # <<>>
    /\ Len(callContext) = 3

----------------------------------------------------------------------------
(* Failed providers and shutdown.  Checked under SpecMcp.                   *)

\* The names in the registry whose connection record is a failed one.
FailedProviders ==
    {servers[k].name : k \in {j \in 1..Len(servers) :
                                  ~connections[servers[j].conn].connected}}

\* A step in which connectServer is called.
AttemptStarts ==
    /\ initPc' = "connecting"
    /\ <<initPc', cfgIdx', inits'>> # <<initPc, cfgIdx, inits>>

Disconnected ==
    IF shutPc = "idle"
    THEN {closeCalls[j].conn : j \in 1..Len(closeCalls)}
    ELSE {}

\* C30: once shutdown has returned, no capability of a provider it
\* disconnected is registered: getAllTools and getAllToolsAsCallables yield
\* none of its tools, and the agent's availableTools maps no name to a wrapper
\* of that provider's connection.
C30_NoCapabilityOfDisconnected ==
    \A c \in Disconnected :
        /\ c \notin InRegistry
        /\ LET all == GetAllTools(servers, connections, 1)
           IN  \A k \in 1..Len(all) :
                   \E r \in InRegistry \ {c} :
                       \E t \in 1..Len(connections[r].tools) :
                           connections[r].tools[t] = all[k]
        /\ \A n \in DOMAIN GetAllToolsAsCallables(servers, connections, ToolPrefix) :
               GetAllToolsAsCallables(servers, connections, ToolPrefix)[n].connection # c
        /\ \A n \in DOMAIN availableTools : availableTools[n].connection # c

----------------------------------------------------------------------------
(* Properties of GeminiAgent.act.  Checked under SpecAgent.                 *)

\* act has returned.
ActReturned == actPc = "idle" /\ actReturn # <<>>

C31_InvokeLeavesManager ==
    [][invocations' # invocations =>
        /\ servers' = servers
        /\ connections' = connections
        /\ initialized' = initialized]_vars

\* A registered capability of a connected provider was invoked, the call
\* reached the session and the session threw: the error text came back and the
\* connection is still connected with its capabilities.
C31_Witness ==
    /\ invocations >= 1
    /\ invoked.name \in DOMAIN availableTools
    /\ ~invoked.outcome.ok
    /\ Len(forwarded) >= 1
    /\ observation = "Error calling MCP tool 'c': " \o invoked.outcome.text
    /\ LET c == availableTools[invoked.name].connection
       IN  /\ connections[c].connected
           /\ Len(connections[c].tools) >= 1
           /\ c \in InRegistry

\* C35: every connection record in the manager's Map is in one of two shapes:
\* connected, with a session and no error; or not connected, with an error and
\* no capabilities.
C35_ConnectionRecordShape ==
    \A c \in InRegistry :
        /\ connections[c].connected =>
              connections[c].session /\ connections[c].error = <<>>
        /\ ~connections[c].connected =>
              connections[c].error # <<>> /\ connections[c].tools = <<>>

\* The Map holds a connected record with a capability next to a record whose
\* connect was refused.
C35_Witness ==
    /\ \E c \in InRegistry :
          connections[c].connected /\ Len(connections[c].tools) = 1
    /\ \E c \in InRegistry :
          ~connections[c].connected /\ connections[c].error = <<"ECONNREFUSED">>

(***************************************************************************)
(* shutdown() during initialize().  Checked under SpecMcp.                 *)
(***************************************************************************)

\* Neither call is in progress, and they were the only initialize() that read
\* the configuration and the only shutdown() so far.
BothCompleted ==
    /\ initPc = "idle"
    /\ shutPc = "idle"
    /\ inits = 1
    /\ shutdowns = 1

\* shutdown() called close() on a session: it ran after the initialize() had
\* stored a connection, that is during the initialize() or after it.
ShutdownMetInitialize == closeCalls # <<>>

\* The connections that hold a session on which close() was never called.
OpenSessions ==
    {c \in 1..Len(connections) :
        /\ connections[c].session
        /\ \A j \in 1..Len(closeCalls) : closeCalls[j].conn # c}

\* C37: when shutdown() runs while an initialize() of the same manager is in
\* progress, then once both have completed the manager is uninitialized, its
\* Map is empty and no session is left without a close().  (A shutdown() that
\* runs after the initialize() has returned leaves the same, so the statement
\* is made for every shutdown() that met the initialize().)
C37_ShutdownWinsOverInitialize ==
    (BothCompleted /\ ShutdownMetInitialize) =>
        /\ ~initialized
        /\ servers = <<>>
        /\ OpenSessions = {}

(***************************************************************************)
(* The fields of a parsed delegation.  Checked under SpecParser.           *)
(***************************************************************************)

\* The entire text that follows `label` on a line that begins with it, trimmed.
RestAfter(line, label) == Trim(SubSeq(line, Len(label) + 1, Len(line)))

\* The delegations of the '- agent:' lines S, in line order, each with the
\* whole rest of its '- agent:' line and of its last '- task:' line.
RECURSIVE WholeFieldsInOrder(_)
WholeFieldsInOrder(S) ==
    IF S = {} THEN <<>>
    ELSE LET i == CHOOSE j \in S : \A k \in S : j <= k
         IN  <<[agent |-> RestAfter(LineAt(i), "- agent:"),
                task |-> RestAfter(LineAt(Last(TaskLinesOf(i))), "- task:")]>>
             \o WholeFieldsInOrder(S \ {i})

\* C39: the sub-task of a parsed delegation is the entire trimmed text after
\* '- task:' on its line, further ':' characters included, and the worker id
\* is the entire trimmed text after '- agent:' on its line.
C39_FieldsAreWholeRestOfLine ==
    pc = "planned" => parsed = WholeFieldsInOrder(Emitting)

(***************************************************************************)
(* GeminiAgent.act after the first reply.  Checked under SpecAgent.        *)
(***************************************************************************)

\* The first model call of the current act has settled.
FirstReplySeen == actPc \in {"tool", "followup"} \/ ActReturned

EventsOf(kind) == {k \in 1..Len(actTrace) : actTrace[k].kind = kind}

\* The text is a JSON object that has an "action" or a "tool" field.
HasActionOrToolField(text) ==
    LET payload == JsonParse(text)
    IN  /\ payload.ok
        /\ payload.kind = "object"
        /\ Property(payload, "action") # <<>> \/ Property(payload, "tool") # <<>>

\* A line of the text begins with "Action: " and a name.
HasActionLine(text) ==
    \E k \in 1..Len(Split(text, "\n")) :
        LET line == Split(text, "\n")[k]
        IN  /\ StartsWith(line, "Action: ")
            /\ Trim(SubSeq(line, Len("Action: ") + 1, Len(line))) # ""

\* The act called no tool function, made one model call and returned the
\* first reply as it came.
AnsweredDirectly ==
    /\ ActReturned
    /\ EventsOf("tool") = {}
    /\ Cardinality(EventsOf("model")) = 1
    /\ actReturn = <<firstReply>>
    /\ Len(memory) = memBase + 2

NamesToolInJson(text) ==
    LET payload == JsonParse(Trim(text))
    IN  /\ payload.ok
        /\ payload.kind = "object"
        /\ TruthyValue(Property(payload, "action")) \/ TruthyValue(Property(payload, "tool"))

\* A line of the trimmed text begins, in any letter case, with "action:" and
\* the text between that ':' and the next one is not blank.
NamesToolInLine(text) ==
    \E k \in 1..Len(Split(Trim(text), "\n")) :
        LET line == Split(Trim(text), "\n")[k]
            at == IndexOf(line, ":")
            rest == SubSeq(line, at + 1, Len(line))
            upto == IF IndexOf(rest, ":") = 0 THEN rest
                    ELSE SubSeq(rest, 1, IndexOf(rest, ":") - 1)
        IN  /\ Len(line) >= Len("action:")
            /\ ToLowerCase(SubSeq(line, 1, Len("action:"))) = "action:"
            /\ Trim(upto) # ""

Appended == SubSeq(memory, memBase + 1, Len(memory))

LastModelCallFailed == ActReturned /\ ~agentReply.ok

\* C34: act never lets an exception reach its caller; a failure of the model
\* call, of the tool, of building the context window or of recording to
\* memory is turned into a descriptive text that act returns or records as
\* the tool observation.
C34_FailuresBecomeText ==
    /\ actPc # "threw"
    /\ LastModelCallFailed => actReturn # <<"">>
    /\ \A k \in 1..Len(Appended) :
          (Appended[k].role = "tool" /\ Includes(Appended[k].content, ModelError)) =>
              StartsWith(Appended[k].content,
                         toolName[1] \o " output: Error executing tool '"
                         \o toolName[1] \o "': ")

(***************************************************************************)
(* Overlapping initialize() calls.  Checked under SpecMcpOverlap.          *)
(***************************************************************************)

\* No provider has been the target of two connection attempts.
AttemptedOnce ==
    \A i, j \in 1..Len(attempts) : i # j => attempts[i].name # attempts[j].name

\* A step in which the Map entry of a provider with an established session is
\* given another connection, no close() having been called on that session.
ReplacesOpenSession ==
    \E k \in 1..Len(servers) :
        /\ connections[servers[k].conn].session
        /\ MapHas(servers', servers[k].name)
        /\ MapGet(servers', servers[k].name) # servers[k].conn
        /\ \A j \in 1..Len(closeCalls) : closeCalls[j].conn # servers[k].conn

\* C36: when two initialize() calls overlap, each configured provider still
\* gets at most one connection attempt (as long as no shutdown() intervenes),
\* and no established session is replaced in the Map without having been
\* closed.
C36_OverlappingInitializeConnectsOnce ==
    [][/\ (secondInit'.pc = "connecting" /\ shutdowns' = 0) => AttemptedOnce'
       /\ ~ReplacesOpenSession]_vars

(***************************************************************************)
(* The log across runs of one orchestrator.  Checked under SpecRuns.       *)
(***************************************************************************)

\* The messages the log held when the current run started that were sent to or
\* from the agent, in append order.
EarlierFor(agentName) == GetContextFor(SubSeq(messages, 1, logBase), agentName)

\* C38: execute() does not clear the message log: a run starts with the log
\* the earlier runs left (reset() alone empties it), and the context given to
\* a worker holds every message of that log sent to or from the worker, in
\* append order, before the messages of the current run, the last of which is
\* the current task message.
C38_ContextSpansRuns ==
    [][/\ runs' # runs => (messages' = messages /\ logBase' = Len(messages))
       /\ pc' = "working" =>
             LET agentName == delegations'[idx'].agent
                 earlier == GetContextFor(SubSeq(messages', 1, logBase'), agentName)
                 task == callContext'[Len(callContext')]
             IN  /\ Len(messages') > logBase'
                 /\ Len(callContext') > Len(earlier)
                 /\ SubSeq(callContext', 1, Len(earlier)) = earlier
                 /\ <<task.from, task.to, task.type, task.content>>
                    = <<"router", agentName, "task", delegations'[idx'].task>>]_vars

\* In the second run, with no reset since the first, coder is given the task
\* and the result of its delegation of the first run before its current task.
C38_Witness ==
    /\ runs = 2
    /\ pc = "working"
    /\ delegations[idx].agent = "coder"
    /\ logBase >= 4
    /\ Len(EarlierFor("coder")) = 2
    /\ Len(callContext) = 3
    /\ callContext[1].type = "task"
    /\ callContext[2].type = "result"
    /\ callContext[3].content = delegations[idx].task

(***************************************************************************)
(* MemoryManager.getContextWindow called twice.  Checked under SpecMemory. *)
(***************************************************************************)

\* A step in which getContextWindow is called.
WindowCall == memCall'.op = "getContextWindow" /\ memCall'.calls # memCall.calls

\* C40: getContextWindow never changes the history; and a call that follows
\* another call with the same arguments, no addEntry in between, returns the
\* same window and leaves the summary as the first call left it.
C40_WindowCallRepeatable ==
    [][WindowCall =>
          /\ memory' = memory
          /\ (memCall.op = "getContextWindow"
                 /\ memCall.maxMessages = memCall'.maxMessages) =>
                /\ memCall'.window = memCall.window
                /\ summary' = summary]_vars

====
